---- MODULE Spec2Model ----
(***************************************************************************)
(* Cron scheduling and execution engine of compusophy/cron:                *)
(*   - the cron matcher and run-once guard (lib/cron-scheduler.ts),        *)
(*   - the job run loop (pages/api/cron/runner), the pause, update and     *)
(*     test-run request handlers, all acting on the shared key/value store,*)
(*   - the nonce lock (lib/nonce-lock.ts) and the executors that use it,   *)
(*   - the job-create and job-delete requests and the wallet requests      *)
(*     (create, reparent, delete, drain) on the same store.                *)
(* Every await of a handler is a separate step, so requests interleave at  *)
(* exactly the points where the serverless handlers can interleave.        *)
(***************************************************************************)
EXTENDS Integers, Sequences, FiniteSets, TLC

VARIABLES
    now,        \* wall clock, in slots (SlotsPerMinute slots per minute)
    active,     \* the set cron:jobs:active
    job,        \* cron:job:<id> -> stored JobConfig (absent ids have no config)
    logs,       \* cron:job:<id>:logs -> log entries, newest first
    run,        \* run-loop invocations in flight
    pause,      \* the pause/resume request in flight
    upd,        \* the job-update request in flight
    test,       \* the test-run request in flight
    hist,       \* history of what happened, per job (read by the properties only)
    kvLock,     \* nonce:lock:<chainId>:<address> -> stored holder token (absent keys are free)
    lease,      \* the lock keys for which the store holds an expiry
    caller,     \* executors in flight on the nonce lock
    wallet,     \* wallet:<id> -> stored Wallet (absent ids have no record)
    walletsActive,  \* the set wallets:active
    walletJobs, \* wallet:<id>:jobs -> the job ids tracked for the wallet
    req         \* the job-delete and wallet requests in flight

vars == <<now, active, job, logs, run, pause, upd, test, hist, kvLock, lease, caller,
          wallet, walletsActive, walletJobs, req>>

cronVars == <<now, active, job, logs, run, pause, upd, test, hist>>
lockVars == <<kvLock, lease, caller>>
walletVars == <<wallet, walletsActive, walletJobs, req>>

----------------------------------------------------------------------------
(* Bounds of the model *)

\* slots of the wall clock per calendar minute
SlotsPerMinute == 2
\* the clock stops advancing at this slot
MaxTime == 2
\* request handlers started in one behaviour
MaxRequests == 3
\* polls of the lock's wait loop that fit in MAX_LOCK_WAIT
MaxPolls == 2
\* executions of one job in the log-list specification
MaxAppends == 105
\* the largest clock value the matcher is applied to
MaxMinute == 59

(* Program constants *)

\* MAX_FAILURES: consecutive failures that auto-pause a job
MAX_FAILURES == 3
\* amounts of the native asset are counted in units of 0.001 ETH: they have
\* 3 decimals where the chain has 18
EtherDecimals == 3
\* gasReserve of getMaxEthBalance, 0.001 ETH, in units of 0.001 ETH
GasReserve == 1
\* entries a job's log list keeps: ltrim(key, 0, 99)
LOG_CAP == 100

\* null, undefined and NaN are the empty option; a present value v is <<v>>
None == <<>>
Some(v) == <<v>>

Jobs == {"j1", "j2"}
Ticks == {"t1", "t2"}
Callers == {"c1", "c2"}
Wallets == {"w1", "w2", "w3"}
Requests == {"r1", "r2"}

----------------------------------------------------------------------------
(* Strings are sequences of one-character strings. *)

DigitVal == [c \in {"0", "1", "2", "3", "4", "5", "6", "7", "8", "9"} |->
    CASE c = "0" -> 0 [] c = "1" -> 1 [] c = "2" -> 2 [] c = "3" -> 3
      [] c = "4" -> 4 [] c = "5" -> 5 [] c = "6" -> 6 [] c = "7" -> 7
      [] c = "8" -> 8 [] c = "9" -> 9]

IsDigit(c) == c \in DOMAIN DigitVal

DigitChar(d) == CHOOSE c \in DOMAIN DigitVal : DigitVal[c] = d

includes(s, c) == \E i \in 1..Len(s) : s[i] = c

RECURSIVE SplitAcc(_, _, _)
SplitAcc(s, sep, cur) ==
    IF s = <<>> THEN <<cur>>
    ELSE IF Head(s) = sep THEN <<cur>> \o SplitAcc(Tail(s), sep, <<>>)
    ELSE SplitAcc(Tail(s), sep, Append(cur, Head(s)))

\* String.prototype.split with a one-character separator
split(s, sep) == SplitAcc(s, sep, <<>>)

\* Array.prototype.filter(p => p !== '')
filterNonEmpty(parts) == SelectSeq(parts, LAMBDA p : p # <<>>)

RECURSIVE DigitsValue(_, _)
DigitsValue(s, acc) ==
    IF s = <<>> THEN acc ELSE DigitsValue(Tail(s), 10 * acc + DigitVal[Head(s)])

\* Number(s) on the characters a cron field can hold: '' is 0, digits are
\* their value, anything else is NaN
Number(s) ==
    IF s = <<>> THEN Some(0)
    ELSE IF \A i \in 1..Len(s) : IsDigit(s[i]) THEN Some(DigitsValue(s, 0))
    ELSE None

RECURSIVE LeadingDigits(_)
LeadingDigits(s) ==
    IF s = <<>> \/ ~IsDigit(Head(s)) THEN <<>>
    ELSE <<Head(s)>> \o LeadingDigits(Tail(s))

\* parseInt(s, 10): an optional sign, then the longest prefix of digits
parseInt(s) ==
    LET neg == s # <<>> /\ Head(s) = "-"
        body == IF s # <<>> /\ Head(s) \in {"-", "+"} THEN Tail(s) ELSE s
        ds == LeadingDigits(body)
    IN  IF ds = <<>> THEN None
        ELSE IF neg THEN Some(0 - DigitsValue(ds, 0)) ELSE Some(DigitsValue(ds, 0))

RECURSIVE NatToString(_)
NatToString(n) ==
    IF n < 10 THEN <<DigitChar(n)>>
    ELSE Append(NatToString(n \div 10), DigitChar(n % 10))

\* value % step === 0 in JavaScript: NaN and a zero step never compare equal
RemIsZero(value, step) ==
    /\ value # None /\ step # None /\ step[1] # 0
    /\ LET m == IF step[1] < 0 THEN 0 - step[1] ELSE step[1]
           v == IF value[1] < 0 THEN 0 - value[1] ELSE value[1]
       IN  v % m = 0

\* value >= start && value <= end, false when either bound is NaN
InRange(value, start, end) ==
    start # None /\ end # None /\ value >= start[1] /\ value <= end[1]

\* value - start, NaN when start is NaN
Minus(value, start) == IF start = None THEN None ELSE Some(value - start[1])

matchesCronField(field, value) ==
    IF field = NatToString(value) THEN TRUE
    ELSE IF field = <<"*">> THEN TRUE
    ELSE
      LET slashParts == split(field, "/")
          range == slashParts[1]
          stepNum == parseInt(slashParts[2])
          rangeParts == split(range, "-")
          fieldParts == split(field, "-")
      IN  IF includes(field, "/") /\ range = <<"*">>
            THEN RemIsZero(Some(value), stepNum)
          ELSE IF includes(field, "/") /\ includes(range, "-")
            THEN /\ InRange(value, Number(rangeParts[1]), Number(rangeParts[2]))
                 /\ RemIsZero(Minus(value, Number(rangeParts[1])), stepNum)
          ELSE IF includes(field, "-")
            THEN InRange(value, Number(fieldParts[1]), Number(fieldParts[2]))
          ELSE IF includes(field, ",")
            THEN \E i \in 1..Len(split(field, ",")) :
                    Number(split(field, ",")[i]) = Some(value)
          ELSE FALSE

----------------------------------------------------------------------------
(* The process's local clock.  Slot 0 is 2024-12-31 23:59:00, a Tuesday, so *)
(* that the minutes of the model cross an hour, a day, a month and a year.  *)

MinuteOf(t) == t \div SlotsPerMinute

\* the getters of Date used by shouldRunJob (getMonth is 0-indexed)
DateOf(t) ==
    LET total == 1439 + MinuteOf(t)
    IN  IF total < 1440
        THEN [year |-> 2024, month |-> 11, date |-> 31, hours |-> total \div 60,
              minutes |-> total % 60, day |-> 2]
        ELSE [year |-> 2025, month |-> 0, date |-> 1,
              hours |-> (total - 1440) \div 60, minutes |-> total % 60, day |-> 3]

sameMinute(lastRun, d) ==
    /\ lastRun.year = d.year
    /\ lastRun.month = d.month
    /\ lastRun.date = d.date
    /\ lastRun.hours = d.hours
    /\ lastRun.minutes = d.minutes

\* the five field checks of shouldRunJob
cronMatches(cronSchedule, d) ==
    LET parts == filterNonEmpty(split(cronSchedule, " "))
    IN  /\ Len(parts) = 5
        /\ matchesCronField(parts[1], d.minutes)
        /\ matchesCronField(parts[2], d.hours)
        /\ matchesCronField(parts[3], d.date)
        /\ matchesCronField(parts[4], d.month + 1)
        /\ matchesCronField(parts[5], d.day)

\* variant: the schedule check without the run-once guard
shouldRunJob_NoGuard(cronSchedule, lastRunTime, t) ==
    cronMatches(cronSchedule, DateOf(t))

shouldRunJob(cronSchedule, lastRunTime, t) ==
    /\ cronMatches(cronSchedule, DateOf(t))
    /\ ~(lastRunTime # None /\ sameMinute(DateOf(lastRunTime[1]), DateOf(t)))

----------------------------------------------------------------------------
(* Job configurations, as the create and update handlers store them.       *)

Str_EveryMinute == <<"*", " ", "*", " ", "*", " ", "*", " ", "*">>
\* 59 23 * * * : once a day, in the first minute of the model
Str_Daily == <<"5", "9", " ", "2", "3", " ", "*", " ", "*", " ", "*">>

BaseJob ==
    [schedule |-> Str_EveryMinute, type |-> "eth_transfer", chain |-> "base",
     useMax |-> None, amount |-> None, swapAmount |-> None,
     fromToken |-> None, toToken |-> None, tokenAddress |-> None,
     swapDirection |-> None,
     lastRunTime |-> None, enabled |-> TRUE, consecutiveFailures |-> 0,
     walletId |-> Some("w1")]

EthFixed == [BaseJob EXCEPT !.amount = Some(2)]
\* "use maximum" jobs whose amount was set by a later update that gave an
\* amount and no useMax: both fields are stored
EthMax == [EthFixed EXCEPT !.useMax = Some(TRUE)]
SwapEthUsdc ==
    [BaseJob EXCEPT !.type = "swap", !.fromToken = Some("ETH"),
                    !.toToken = Some("USDC"), !.swapAmount = Some(2)]
SwapUsdcEth ==
    [BaseJob EXCEPT !.type = "swap", !.fromToken = Some("USDC"),
                    !.toToken = Some("ETH"), !.swapAmount = Some(2)]
TokenBuy ==
    [BaseJob EXCEPT !.type = "token_swap", !.tokenAddress = Some("tok"),
                    !.swapDirection = Some("eth_to_token"), !.swapAmount = Some(2)]
TokenBuyMax == [TokenBuy EXCEPT !.useMax = Some(TRUE)]
TokenSellMax ==
    [BaseJob EXCEPT !.type = "token_swap", !.tokenAddress = Some("tok"),
                    !.swapDirection = Some("token_to_eth"), !.useMax = Some(TRUE)]

EthDaily == [EthFixed EXCEPT !.schedule = Str_Daily]

JobTemplates ==
    {EthFixed, EthMax, EthDaily, SwapEthUsdc, SwapUsdcEth, TokenBuy, TokenBuyMax,
     TokenSellMax}

\* wallet balances the chain client may report, in units of 0.001 ETH
Balances == {0, 1, 4}

\* value || dflt for an optional value
OrElse(v, dflt) == IF v = None THEN dflt ELSE v[1]

Truthy(v) == v # None /\ v[1] # FALSE

----------------------------------------------------------------------------
(* The executors, as the run loop calls them.  The chain client and the    *)
(* quote endpoint are external: bal is the balance they report and chainOk *)
(* whether every call to them succeeded.                                   *)

Zeros(n) == [i \in 1..n |-> "0"]

padStart(s, n) == IF Len(s) >= n THEN s ELSE Zeros(n - Len(s)) \o s

padEnd(s, n) == IF Len(s) >= n THEN s ELSE s \o Zeros(n - Len(s))

\* s.replace(/(0+)$/, '')
stripTrailingZeros(s) ==
    LET nz == {i \in 1..Len(s) : s[i] # "0"}
    IN  IF nz = {} THEN <<>> ELSE SubSeq(s, 1, CHOOSE i \in nz : \A k \in nz : k <= i)

\* formatEther of a non-negative value: the decimal string of value divided
\* by 10^EtherDecimals, without trailing zeros in the fraction
formatEther(value) ==
    LET display == padStart(NatToString(value), EtherDecimals)
        integer == SubSeq(display, 1, Len(display) - EtherDecimals)
        fraction == stripTrailingZeros(
                        SubSeq(display, Len(display) - EtherDecimals + 1, Len(display)))
    IN  (IF integer = <<>> THEN <<"0">> ELSE integer)
        \o (IF fraction = <<>> THEN <<>> ELSE <<".">> \o fraction)

\* parseEther of a decimal string with at most EtherDecimals fraction digits
parseEther(s) ==
    LET parts == split(s, ".")
        integer == parts[1]
        fraction == stripTrailingZeros(IF Len(parts) > 1 THEN parts[2] ELSE <<>>)
    IN  DigitsValue(integer \o padEnd(fraction, EtherDecimals), 0)

\* variant: the whole balance is the maximum
getMaxEthBalance_Full(bal) == formatEther(bal)

\* the balance less the gas reserve, as a decimal string
getMaxEthBalance(bal) == formatEther(IF bal > GasReserve THEN bal - GasReserve ELSE 0)

getMaxTokenBalance(bal) == bal

\* the amount the run loop passes to the chain operation, as the executor
\* parses it; None when the executor throws before any amount is computed
EffectiveAmount(cfg, bal) ==
    IF cfg.type = "eth_transfer" THEN
        IF Truthy(cfg.useMax) THEN Some(parseEther(getMaxEthBalance(bal)))
        ELSE Some(OrElse(cfg.amount, 0))
    ELSE IF cfg.type = "swap" THEN
        IF cfg.fromToken = None \/ cfg.toToken = None \/ cfg.swapAmount = None
        THEN None ELSE cfg.swapAmount
    ELSE
        IF cfg.tokenAddress = None THEN None
        ELSE IF Truthy(cfg.useMax) THEN
            IF OrElse(cfg.swapDirection, "eth_to_token") = "eth_to_token"
            THEN Some(parseEther(getMaxEthBalance(bal)))
            ELSE Some(getMaxTokenBalance(bal))
        ELSE Some(OrElse(cfg.swapAmount, 0))

\* the gas price is positive: the balance can cover the amount and the gas
\* only if it exceeds the amount
GasOutcomes(cfg, bal) ==
    LET amt == EffectiveAmount(cfg, bal)
    IN  IF amt # None /\ bal > amt[1] THEN BOOLEAN ELSE {FALSE}

\* sendEth up to sendTransaction: the value of the transaction it hands to
\* the chain client, None when it throws before
sendEth(amount, bal, gasCovered) ==
    IF bal < amount THEN None
    ELSE IF ~gasCovered THEN None
    ELSE Some(amount)

\* the native transfer the executor of the job submits, if any
Transfer(cfg, bal, gasCovered) ==
    IF cfg.type = "eth_transfer"
    THEN sendEth(EffectiveAmount(cfg, bal)[1], bal, gasCovered)
    ELSE None

\* the chain operation succeeds only if the executor did not throw, the
\* balance covers the amount (and, for a transfer, the gas) and the external
\* calls went through
ExecSucceeds(cfg, bal, gasCovered, chainOk) ==
    LET amt == EffectiveAmount(cfg, bal)
    IN  /\ amt # None
        /\ bal >= amt[1]
        /\ cfg.type = "eth_transfer" => gasCovered
        /\ chainOk

\* the amount field of the job a log entry of its type records
ConfiguredAmount(cfg) == IF cfg.type = "eth_transfer" THEN cfg.amount ELSE cfg.swapAmount

\* amount of the success log entry
LoggedAmount(cfg, amt) == ConfiguredAmount(cfg)

----------------------------------------------------------------------------
(* The shared store *)

kvSetJob_KeepDisabled(jid, cfg) ==
    [k \in (DOMAIN job) \cup {jid} |->
        IF k # jid THEN job[k]
        ELSE [cfg EXCEPT !.enabled = @ /\ (jid \in DOMAIN job => job[jid].enabled)]]

kvSetJob(jid, cfg) == [j \in (DOMAIN job) \cup {jid} |-> IF j = jid THEN cfg ELSE job[j]]

\* log ids are unique; the model numbers a job's entries in the order of
\* their creation, which is also the order of their executedAt
NewLogEntry(jid, entry) == [id |-> hist.appended[jid] + 1] @@ entry

\* variant: the entry is pushed at the tail of the list
lpushLog_AtTail(store, jid, entry) == [store EXCEPT ![jid] = @ \o <<entry>>]

\* kv.lpush(cron:job:<id>:logs, logId), on the log store given
lpushLog(store, jid, entry) == [store EXCEPT ![jid] = <<entry>> \o @]

\* LTRIM start stop of the store: the elements at the 0-based positions
\* start..stop are kept
ltrim(list, start, stop) ==
    SubSeq(list, start + 1, IF stop + 1 < Len(list) THEN stop + 1 ELSE Len(list))

\* kv.ltrim(cron:job:<id>:logs, 0, 99)
ltrimLog(store, jid) == [store EXCEPT ![jid] = ltrim(@, 0, LOG_CAP - 1)]

\* results is declared empty before the loop; the loop assigns each outcome
\* to its local result and pushes nothing
IdleRun == [pc |-> "idle", queue |-> <<>>, results |-> <<>>,
            jid |-> "", cfg |-> None, dueAt |-> 0,
            res |-> "", amt |-> None, bal |-> 0, transfer |-> None,
            lockFailed |-> FALSE, failureCount |-> 0]
IdlePause == [pc |-> "idle", jid |-> "", enabled |-> FALSE, cfg |-> None]
IdleUpd == [pc |-> "idle", jid |-> "", body |-> None, cfg |-> None]
IdleTest == [pc |-> "idle", jid |-> "", cfg |-> None, res |-> ""]

\* the requests that hold a copy of job jid which they will write back
Holders(jid) ==
    {t \in Ticks : run[t].pc \in {"exec", "save"} /\ run[t].jid = jid}
    \cup (IF pause.pc = "write" /\ pause.jid = jid THEN {"pause"} ELSE {})
    \cup (IF upd.pc = "write" /\ upd.jid = jid THEN {"update"} ELSE {})

\* history of a store write of job jid by request p
Wrote(h, p, jid) ==
    [h EXCEPT !.dirty = (@ \cup Holders(jid)) \ {p},
              !.lost = IF p \in h.dirty THEN @ \cup {jid} ELSE @]

----------------------------------------------------------------------------
(* The wall clock *)

Advance ==
    /\ now < MaxTime
    /\ now' = now + 1
    /\ UNCHANGED <<active, job, logs, run, pause, upd, test, hist>>
    /\ UNCHANGED lockVars
    /\ UNCHANGED walletVars

----------------------------------------------------------------------------
(* The run loop: one invocation of the runner handler *)

Orders(S) == {q \in [1..Cardinality(S) -> S] : \A i, k \in 1..Cardinality(S) : i # k => q[i] # q[k]}

\* the priority the job was submitted with in the job form (default 0); the
\* create and update handlers do not read the field
FormPriority(jid) == IF jid = "j2" THEN 1 ELSE 0

\* smembers cron:jobs:active; the store returns the ids in no particular order
TickStart(t) ==
    /\ run[t].pc = "idle"
    /\ active # {}
    /\ \E jobIds \in Orders(active) :
          run' = [run EXCEPT ![t] = [IdleRun EXCEPT !.pc = "loop", !.queue = jobIds]]
    /\ hist.reqs < MaxRequests
    /\ hist' = [hist EXCEPT !.reqs = @ + 1]
    /\ UNCHANGED <<now, active, job, logs, pause, upd, test>>
    /\ UNCHANGED lockVars
    /\ UNCHANGED walletVars

\* variant: the due check without the enabled filter
IsDue_NoEnabledFilter(jid) ==
    /\ jid \in DOMAIN job
    /\ shouldRunJob(job[jid].schedule, job[jid].lastRunTime, now)

\* the job is stored, enabled and due now
IsDue_Unheld(jid) ==
    /\ jid \in DOMAIN job
    /\ job[jid].enabled
    /\ shouldRunJob(job[jid].schedule, job[jid].lastRunTime, now)
    /\ \A t \in Ticks : ~(run[t].pc \in {"exec", "save"} /\ run[t].jid = jid)

IsDue(jid) ==
    /\ jid \in DOMAIN job
    /\ job[jid].enabled
    /\ shouldRunJob(job[jid].schedule, job[jid].lastRunTime, now)

\* top of the for loop: kv.get of the next job, the enabled filter and the
\* due check; a job that passes is executed, any other is skipped
TickFetch(t) ==
    /\ run[t].pc = "loop"
    /\ run[t].queue # <<>>
    /\ LET jid == Head(run[t].queue)
       IN  IF IsDue(jid)
           THEN /\ run' = [run EXCEPT ![t].pc = "exec", ![t].jid = jid,
                                      ![t].cfg = Some(job[jid]), ![t].dueAt = now]
                /\ hist' = [hist EXCEPT !.lastDue[jid] = Some(MinuteOf(now)),
                                         !.seen[t] = @ \cup {jid},
                                         !.due[t] = @ \cup {jid}]
           ELSE /\ run' = [run EXCEPT ![t].queue = Tail(@)]
                /\ hist' = [hist EXCEPT !.seen[t] = @ \cup {jid}]
    /\ UNCHANGED <<now, active, job, logs, pause, upd, test>>
    /\ UNCHANGED lockVars
    /\ UNCHANGED walletVars

\* the executor call of the job's type: amount computation and chain operation
TickExec(t) ==
    /\ run[t].pc = "exec"
    /\ \E bal \in Balances, chainOk \in BOOLEAN :
        \E gasCovered \in GasOutcomes(run[t].cfg[1], bal) :
          LET cfg == run[t].cfg[1]
              ok == ExecSucceeds(cfg, bal, gasCovered, chainOk)
          IN  /\ run' = [run EXCEPT ![t].pc = "save",
                                     ![t].res = IF ok THEN "ok" ELSE "err",
                                     ![t].amt = EffectiveAmount(cfg, bal),
                                     ![t].bal = bal,
                                     ![t].transfer = Transfer(cfg, bal, gasCovered)]
              /\ hist' = [hist EXCEPT !.tried[t] = @ \cup {run[t].jid},
                                       !.failed[t] = IF ok THEN @ ELSE @ \cup {run[t].jid}]
    /\ UNCHANGED <<now, active, job, logs, pause, upd, test>>
    /\ UNCHANGED lockVars
    /\ UNCHANGED walletVars

\* variant: the failure path counts the failure but never pauses the job
AfterRun_NoPause(cfg, res, t) ==
    IF res = "ok"
    THEN [cfg EXCEPT !.consecutiveFailures = 0, !.lastRunTime = Some(t)]
    ELSE [cfg EXCEPT !.consecutiveFailures = @ + 1, !.lastRunTime = Some(t)]

\* the job config the run loop stores after an execution
AfterRun(cfg, res, t) ==
    IF res = "ok"
    THEN [cfg EXCEPT !.consecutiveFailures = 0, !.lastRunTime = Some(t)]
    ELSE [cfg EXCEPT !.consecutiveFailures = @ + 1,
                     !.enabled = IF cfg.consecutiveFailures + 1 >= MAX_FAILURES
                                 THEN FALSE ELSE @,
                     !.lastRunTime = Some(t)]

\* the run-state write: jobConfig is updated in memory and stored whole
TickSave(t) ==
    /\ run[t].pc = "save"
    /\ LET jid == run[t].jid
           cfg == run[t].cfg[1]
           new == AfterRun(cfg, run[t].res, now)
           failureCount == IF run[t].res = "ok" THEN 0 ELSE cfg.consecutiveFailures + 1
           autoPaused == run[t].res = "err" /\ failureCount >= MAX_FAILURES
       IN  /\ job' = kvSetJob(jid, new)
           /\ run' = [run EXCEPT ![t].pc = "log", ![t].cfg = Some(new),
                                  ![t].bal = 0, ![t].transfer = None,
                                  ![t].failureCount = failureCount]
           /\ hist' = [Wrote(hist, t, jid) EXCEPT
                          !.autoPauses[jid] = IF autoPaused /\ @ < 2 THEN @ + 1 ELSE @]
    /\ UNCHANGED <<now, active, logs, pause, upd, test>>
    /\ UNCHANGED lockVars
    /\ UNCHANGED walletVars

\* the execution-log entry the run loop appends
RunLogEntry(cfg, res, amt, failureCount) ==
    IF res = "ok"
    THEN [status |-> "success", amount |-> LoggedAmount(cfg, amt), autoPaused |-> FALSE]
    ELSE [status |-> "error", amount |-> None,
          autoPaused |-> failureCount >= MAX_FAILURES]

\* variant: an execution error ends the loop
NextQueue_Abort(queue, res) == IF res = "err" THEN <<>> ELSE Tail(queue)

\* the for loop goes on with the next job id after either path
NextQueue(queue, res) == Tail(queue)

TickLog(t) ==
    /\ run[t].pc = "log"
    /\ logs' = ltrimLog(lpushLog(logs, run[t].jid,
                            NewLogEntry(run[t].jid,
                               RunLogEntry(run[t].cfg[1], run[t].res, run[t].amt,
                                           run[t].failureCount))),
                        run[t].jid)
    /\ hist' = [hist EXCEPT !.appended[run[t].jid] = @ + 1,
                             !.logged[t] = @ \cup {run[t].jid}]
    /\ run' = [run EXCEPT ![t] = [IdleRun EXCEPT !.pc = "loop",
                                      !.queue = NextQueue(run[t].queue, run[t].res),
                                      !.results = run[t].results]]
    /\ UNCHANGED <<now, active, job, pause, upd, test>>
    /\ UNCHANGED lockVars
    /\ UNCHANGED walletVars

\* the body of the 200 response of the run loop
Response(t) == [message |-> "Cron jobs processed", executed |-> run[t].results]

\* the loop is over: the response is sent
TickReturn(t) ==
    /\ run[t].pc = "loop"
    /\ run[t].queue = <<>>
    /\ run' = [run EXCEPT ![t] = IdleRun]
    /\ hist' = [hist EXCEPT !.seen[t] = {}, !.due[t] = {}, !.tried[t] = {},
                             !.failed[t] = {}, !.faults[t] = {},
                             !.logged[t] = {}]
    /\ UNCHANGED <<now, active, job, logs, pause, upd, test>>
    /\ UNCHANGED lockVars
    /\ UNCHANGED walletVars

----------------------------------------------------------------------------
(* The pause/resume request *)

\* kv.get of the job; an unknown id is answered 404
PauseRead(jid, enabled) ==
    /\ pause.pc = "idle"
    /\ jid \in DOMAIN job
    /\ hist.reqs < MaxRequests
    /\ hist' = [hist EXCEPT !.reqs = @ + 1]
    /\ pause' = [pc |-> "write", jid |-> jid, enabled |-> enabled, cfg |-> Some(job[jid])]
    /\ UNCHANGED <<now, active, job, logs, run, upd, test>>
    /\ UNCHANGED lockVars
    /\ UNCHANGED walletVars

\* variant: resuming keeps the failure counter
AfterPause_KeepCount(cfg, enabled) == [cfg EXCEPT !.enabled = enabled]

\* variant: a pause or resume also forgets the last run
AfterPause_ResetRun(cfg, enabled) ==
    [cfg EXCEPT !.enabled = enabled,
                !.consecutiveFailures = IF enabled THEN 0 ELSE @,
                !.lastRunTime = None]

\* the job config the pause handler stores
AfterPause(cfg, enabled) ==
    [cfg EXCEPT !.enabled = enabled,
                !.consecutiveFailures = IF enabled THEN 0 ELSE @]

PauseWrite ==
    /\ pause.pc = "write"
    /\ job' = kvSetJob(pause.jid, AfterPause(pause.cfg[1], pause.enabled))
    /\ hist' = [Wrote(hist, "pause", pause.jid) EXCEPT
                   !.autoPauses[pause.jid] = IF pause.enabled THEN 0 ELSE @]
    /\ pause' = IdlePause
    /\ UNCHANGED <<now, active, logs, run, upd, test>>
    /\ UNCHANGED lockVars
    /\ UNCHANGED walletVars

\* kv.get of a job that is not stored: the 404 response, nothing is written
PauseUnknown(jid, enabled) ==
    /\ pause.pc = "idle"
    /\ jid \notin DOMAIN job
    /\ hist.reqs < MaxRequests
    /\ hist' = [hist EXCEPT !.reqs = @ + 1]
    /\ pause' = [IdlePause EXCEPT !.jid = jid, !.enabled = enabled]
    /\ UNCHANGED <<now, active, job, logs, run, upd, test>>
    /\ UNCHANGED lockVars
    /\ UNCHANGED walletVars

----------------------------------------------------------------------------
(* The job-update request *)

NoBody ==
    [schedule |-> None, type |-> None, chain |-> None, useMax |-> None,
     amount |-> None, swapAmount |-> None, fromToken |-> None, toToken |-> None,
     tokenAddress |-> None, swapDirection |-> None]

\* request bodies: a rename, a switch to "use maximum"
UpdateBodies ==
    {NoBody, [NoBody EXCEPT !.useMax = Some(TRUE)]}

\* body value if given, else the existing one
Given(b, existing) == IF b # None THEN b ELSE existing

\* the amount field of the updated job: set when given without useMax,
\* deleted with useMax, else kept
UpdatedAmount(b, given, existing) ==
    IF ~Truthy(b.useMax) /\ given # None THEN given
    ELSE IF Truthy(b.useMax) THEN None
    ELSE existing

\* variant: an update also switches the job on
UpdateCommon_Enabling(existingJob, b) ==
    [existingJob EXCEPT
        !.schedule = IF b.schedule # None THEN b.schedule[1] ELSE @,
        !.type = IF b.type # None THEN b.type[1] ELSE @,
        !.chain = IF b.chain # None THEN b.chain[1] ELSE @,
        !.useMax = Given(b.useMax, @),
        !.enabled = TRUE]

\* { ...existingJob, schedule, type, chain, useMax }: every other field,
\* the run state included, is the one that was read
UpdateCommon(existingJob, b) ==
    [existingJob EXCEPT
        !.schedule = IF b.schedule # None THEN b.schedule[1] ELSE @,
        !.type = IF b.type # None THEN b.type[1] ELSE @,
        !.chain = IF b.chain # None THEN b.chain[1] ELSE @,
        !.useMax = Given(b.useMax, @)]

ApplyUpdate(existingJob, b) ==
    LET common == UpdateCommon(existingJob, b)
    IN  IF common.type = "eth_transfer" THEN
            [common EXCEPT !.amount = UpdatedAmount(b, b.amount, @),
                           !.fromToken = None, !.toToken = None, !.swapAmount = None,
                           !.tokenAddress = None, !.swapDirection = None]
        ELSE IF common.type = "swap" THEN
            [common EXCEPT !.fromToken = Given(b.fromToken, @),
                           !.toToken = Given(b.toToken, @),
                           !.swapAmount = UpdatedAmount(b, b.swapAmount, @),
                           !.amount = None, !.tokenAddress = None, !.swapDirection = None]
        ELSE
            [common EXCEPT !.tokenAddress = Given(b.tokenAddress, @),
                           !.swapDirection = Given(b.swapDirection,
                                                   Some(OrElse(@, "eth_to_token"))),
                           !.swapAmount = UpdatedAmount(b, b.swapAmount, @),
                           !.amount = None, !.fromToken = None, !.toToken = None]

\* kv.get of the existing job; an unknown id is answered 404
UpdateRead(jid, body) ==
    /\ upd.pc = "idle"
    /\ jid \in DOMAIN job
    /\ hist.reqs < MaxRequests
    /\ hist' = [hist EXCEPT !.reqs = @ + 1]
    /\ upd' = [pc |-> "write", jid |-> jid, body |-> Some(body), cfg |-> Some(job[jid])]
    /\ UNCHANGED <<now, active, job, logs, run, pause, test>>
    /\ UNCHANGED lockVars
    /\ UNCHANGED walletVars

UpdateWrite ==
    /\ upd.pc = "write"
    /\ job' = kvSetJob(upd.jid, ApplyUpdate(upd.cfg[1], upd.body[1]))
    /\ hist' = Wrote(hist, "update", upd.jid)
    /\ upd' = IdleUpd
    /\ UNCHANGED <<now, active, logs, run, pause, test>>
    /\ UNCHANGED lockVars
    /\ UNCHANGED walletVars

----------------------------------------------------------------------------
(* The test-run request *)

\* kv.get of the job; an unknown id is answered 404, a paused job and a
\* token_swap ("Unsupported job type") 400
TestReadWithin(jid, budget) ==
    /\ test.pc = "idle"
    /\ jid \in DOMAIN job
    /\ job[jid].enabled
    /\ job[jid].type \in {"eth_transfer", "swap"}
    /\ hist.reqs < budget
    /\ test' = [IdleTest EXCEPT !.pc = "exec", !.jid = jid, !.cfg = Some(job[jid])]
    /\ hist' = [hist EXCEPT !.reqs = @ + 1]
    /\ UNCHANGED <<now, active, job, logs, run, pause, upd>>
    /\ UNCHANGED lockVars
    /\ UNCHANGED walletVars

TestRead(jid) == TestReadWithin(jid, MaxRequests)

\* the amount a test run passes to the chain operation: the configured one
TestAmount(cfg) ==
    IF cfg.type = "swap" /\ (cfg.fromToken = None \/ cfg.toToken = None) THEN None
    ELSE ConfiguredAmount(cfg)

\* the executor call, with the balances and outcomes the chain may give
TestExecIn(balances, outcomes) ==
    /\ test.pc = "exec"
    /\ \E bal \in balances, chainOk \in outcomes :
          LET amt == TestAmount(test.cfg[1])
              ok == amt # None /\ bal >= amt[1] /\ chainOk
          IN  test' = [test EXCEPT !.pc = "log", !.res = IF ok THEN "ok" ELSE "err"]
    /\ UNCHANGED <<now, active, job, logs, run, pause, upd, hist>>
    /\ UNCHANGED lockVars
    /\ UNCHANGED walletVars

TestExec == TestExecIn(Balances, BOOLEAN)

TestLogEntry(cfg, res) ==
    IF res = "ok"
    THEN [status |-> "success", amount |-> ConfiguredAmount(cfg), autoPaused |-> FALSE]
    ELSE [status |-> "error", amount |-> None, autoPaused |-> FALSE]

\* variant: a test run records its outcome in the job as the run loop does
TestRunState_Counted(jid, cfg, res) == kvSetJob(jid, AfterRun(cfg, res, now))

\* the job configs after the executor call of a test run: the handler has no
\* kv.set of cron:job:<id> on the success path or on the failure path
TestRunState(jid, cfg, res) == job

\* kv.set of the entry and kv.lpush of its id
TestLogPush ==
    /\ test.pc = "log"
    /\ logs' = lpushLog(logs, test.jid,
                        NewLogEntry(test.jid, TestLogEntry(test.cfg[1], test.res)))
    /\ hist' = [hist EXCEPT !.appended[test.jid] = @ + 1]
    /\ test' = [test EXCEPT !.pc = "trim"]
    /\ job' = TestRunState(test.jid, test.cfg[1], test.res)
    /\ UNCHANGED <<now, active, run, pause, upd>>
    /\ UNCHANGED lockVars
    /\ UNCHANGED walletVars

\* kv.ltrim of the list; the response follows
TestLogTrim ==
    /\ test.pc = "trim"
    /\ logs' = ltrimLog(logs, test.jid)
    /\ test' = IdleTest
    /\ UNCHANGED <<now, active, job, run, pause, upd, hist>>
    /\ UNCHANGED lockVars
    /\ UNCHANGED walletVars

----------------------------------------------------------------------------
(* The job-logs endpoint *)

\* logs.sort((a, b) => b.executedAt - a.executedAt): an entry comes after
\* exactly the entries that are newer than it
SortNewestFirst(list) ==
    [i \in 1..Len(list) |->
        list[CHOOSE p \in 1..Len(list) :
                Cardinality({q \in 1..Len(list) : list[q].id > list[p].id}) = i - 1]]

\* GET logs: kv.lrange(key, 0, -1), kv.get of every entry, sorted newest first
LogsResponse(jid) == SortNewestFirst(logs[jid])

----------------------------------------------------------------------------
(* The nonce lock and the executors that submit transactions *)

\* the operations that submit transactions for a wallet
Kinds == {"eth_transfer", "swap_eth_usdc", "swap_usdc_eth",
          "token_swap_eth_to_token", "token_swap_token_to_eth"}

\* whether the executor of the kind wraps its transactions in withNonceLock:
\* sendEth does not, swapTokens (USDC -> ETH) and the 0x helpers do
UsesNonceLock(kind) == kind # "eth_transfer"

\* wallet addresses as the account object spells them
Addresses == {"0xAb", "0xCd"}

toLowerCase(address) ==
    IF address \in {"0xAb", "0xAB"} THEN "0xab"
    ELSE IF address = "0xCd" THEN "0xcd" ELSE address

\* chain.id of base, the only chain the executors support
BaseChainId == "8453"

\* nonce:lock:<chainId || 'default'>:<address.toLowerCase()>
lockKey_CaseSensitive(address, chainId) == <<OrElse(chainId, "default"), address>>

lockKey(address, chainId) == <<OrElse(chainId, "default"), toLowerCase(address)>>

IdleCaller == [pc |-> "idle", kind |-> "", key |-> <<>>, lockId |-> None, polls |-> 0]

\* kv.get of a lock key: the stored holder token, or None
kvGetLock(key) == IF key \in DOMAIN kvLock THEN Some(kvLock[key]) ELSE None

\* variant: the write is dropped
kvSetLock_Drop(key, lockId) == kvLock

kvSetLock(key, lockId) ==
    [k \in (DOMAIN kvLock) \cup {key} |-> IF k = key THEN lockId ELSE kvLock[k]]

kvDelLock_Keep(key) == kvLock

kvDelLock(key) == [k \in (DOMAIN kvLock) \ {key} |-> kvLock[k]]

\* an executor is called for a wallet: a locking executor enters
\* acquireNonceLock, sendEth goes straight to its transaction
CallStart(c, kind, address) ==
    /\ caller[c].pc = "idle"
    /\ caller' = [caller EXCEPT ![c] =
                    [IdleCaller EXCEPT !.pc = IF UsesNonceLock(kind) THEN "get" ELSE "body",
                                       !.kind = kind,
                                       !.key = lockKey(address, Some(BaseChainId))]]
    /\ UNCHANGED <<kvLock, lease>>
    /\ UNCHANGED cronVars
    /\ UNCHANGED walletVars

\* after a failed attempt: sleep LOCK_RETRY_DELAY and loop while the wait
\* is below MAX_LOCK_WAIT
Retry(cl) ==
    [cl EXCEPT !.polls = @ + 1,
               !.pc = IF cl.polls + 1 < MaxPolls THEN "get" ELSE "timeout"]

\* existingLock = kv.get(lockKey)
AcquireGet(c) ==
    /\ caller[c].pc = "get"
    /\ caller' = [caller EXCEPT ![c] = IF kvGetLock(caller[c].key) = None
                                       THEN [@ EXCEPT !.pc = "set"]
                                       ELSE Retry(@)]
    /\ UNCHANGED <<kvLock, lease>>
    /\ UNCHANGED cronVars
    /\ UNCHANGED walletVars

\* kv.set(lockKey, lockId): the caller's id is its unique lock id; a plain
\* set drops the expiry the key had
AcquireSet(c) ==
    /\ caller[c].pc = "set"
    /\ kvLock' = kvSetLock(caller[c].key, c)
    /\ lease' = lease \ {caller[c].key}
    /\ caller' = [caller EXCEPT ![c].pc = "expire"]
    /\ UNCHANGED cronVars
    /\ UNCHANGED walletVars

\* kv.expire(lockKey, LOCK_TTL) on a store whose support of expiry is one
\* of the values given
AcquireExpireOn(c, support) ==
    /\ caller[c].pc = "expire"
    /\ \E supported \in support :
          lease' = IF supported /\ caller[c].key \in DOMAIN kvLock
                   THEN lease \cup {caller[c].key} ELSE lease
    /\ caller' = [caller EXCEPT ![c].pc = "verify"]
    /\ UNCHANGED kvLock
    /\ UNCHANGED cronVars
    /\ UNCHANGED walletVars

\* kv.expire(lockKey, LOCK_TTL), which the store may not support
AcquireExpire(c) == AcquireExpireOn(c, BOOLEAN)

\* verifyLock = kv.get(lockKey); the lock is acquired if it is the caller's id
AcquireVerify(c) ==
    /\ caller[c].pc = "verify"
    /\ caller' = [caller EXCEPT ![c] = IF kvGetLock(caller[c].key) = Some(c)
                                       THEN [@ EXCEPT !.pc = "body", !.lockId = Some(c)]
                                       ELSE Retry(@)]
    /\ UNCHANGED <<kvLock, lease>>
    /\ UNCHANGED cronVars
    /\ UNCHANGED walletVars

\* acquireNonceLock returns null and withNonceLock throws
AcquireTimeout(c) ==
    /\ caller[c].pc = "timeout"
    /\ caller' = [caller EXCEPT ![c] = IdleCaller]
    /\ UNCHANGED <<kvLock, lease>>
    /\ UNCHANGED cronVars
    /\ UNCHANGED walletVars

\* fn(): the transactions are submitted; finally releaseNonceLock
Body(c) ==
    /\ caller[c].pc = "body"
    /\ caller' = [caller EXCEPT ![c] = IF caller[c].lockId # None
                                       THEN [@ EXCEPT !.pc = "release"]
                                       ELSE IdleCaller]
    /\ UNCHANGED <<kvLock, lease>>
    /\ UNCHANGED cronVars
    /\ UNCHANGED walletVars

\* currentLockId = kv.get(lockKey); a mismatch is only logged
ReleaseGet(c) ==
    /\ caller[c].pc = "release"
    /\ caller' = [caller EXCEPT ![c] = IF kvGetLock(caller[c].key) = caller[c].lockId
                                       THEN [@ EXCEPT !.pc = "del"]
                                       ELSE IdleCaller]
    /\ UNCHANGED <<kvLock, lease>>
    /\ UNCHANGED cronVars
    /\ UNCHANGED walletVars

\* kv.del(lockKey)
ReleaseDel(c) ==
    /\ caller[c].pc = "del"
    /\ kvLock' = kvDelLock(caller[c].key)
    /\ lease' = lease \ {caller[c].key}
    /\ caller' = [caller EXCEPT ![c] = IdleCaller]
    /\ UNCHANGED cronVars
    /\ UNCHANGED walletVars

\* the store drops a key whose expiry (LOCK_TTL) has passed
LeaseExpire(key) ==
    /\ key \in lease
    /\ kvLock' = kvDelLock(key)
    /\ lease' = lease \ {key}
    /\ UNCHANGED caller
    /\ UNCHANGED cronVars
    /\ UNCHANGED walletVars

LockKeys == {lockKey(a, Some(BaseChainId)) : a \in Addresses}

----------------------------------------------------------------------------
(* The run loop calling an executor that takes the nonce lock *)

\* the operation the run loop calls for a job
KindOf(cfg) ==
    IF cfg.type = "eth_transfer" THEN "eth_transfer"
    ELSE IF cfg.type = "swap"
         THEN IF cfg.fromToken = Some("ETH") THEN "swap_eth_usdc" ELSE "swap_usdc_eth"
    ELSE IF OrElse(cfg.swapDirection, "eth_to_token") = "eth_to_token"
         THEN "token_swap_eth_to_token" ELSE "token_swap_token_to_eth"

\* the address of the account of jobConfig.privateKey
WalletOf(jid) == "0xAb"

\* variant: fn() is called whether or not a lock id was returned
withNonceLock_Unchecked(lockId, outcome) == outcome

\* withNonceLock: throws when acquireNonceLock returned null, else gives
\* what fn() gives
withNonceLock(lockId, outcome) == IF lockId = None THEN "err" ELSE outcome

\* the executor is entered: it throws on a missing field or a balance below
\* the amount, else it goes on to its transactions as caller c
ExecCall(t, c) ==
    /\ run[t].pc = "exec"
    /\ caller[c].pc = "idle"
    /\ \E bal \in Balances :
          LET cfg == run[t].cfg[1]
              amt == EffectiveAmount(cfg, bal)
              kind == KindOf(cfg)
          IN  IF amt = None \/ bal < amt[1]
              THEN /\ run' = [run EXCEPT ![t].pc = "save", ![t].res = "err",
                                         ![t].amt = amt]
                   /\ hist' = [hist EXCEPT !.tried[t] = @ \cup {run[t].jid},
                                            !.failed[t] = @ \cup {run[t].jid}]
                   /\ UNCHANGED caller
              ELSE /\ run' = [run EXCEPT ![t].pc = "call", ![t].amt = amt,
                                         ![t].bal = bal]
                   /\ hist' = [hist EXCEPT !.tried[t] = @ \cup {run[t].jid}]
                   /\ caller' = [caller EXCEPT ![c] =
                          [IdleCaller EXCEPT
                              !.pc = IF UsesNonceLock(kind) THEN "get" ELSE "body",
                              !.kind = kind,
                              !.key = lockKey(WalletOf(run[t].jid), Some(BaseChainId))]]
    /\ UNCHANGED <<now, active, job, logs, pause, upd, test, kvLock, lease>>
    /\ UNCHANGED walletVars

\* acquireNonceLock returned null: withNonceLock throws into the catch
\* block of the job
ExecTimeout(t, c) ==
    /\ run[t].pc = "call"
    /\ caller[c].pc = "timeout"
    /\ \E chainOk \in BOOLEAN :
          run' = [run EXCEPT ![t].pc = "save", ![t].bal = 0, ![t].lockFailed = TRUE,
                             ![t].res = withNonceLock(None, IF chainOk THEN "ok" ELSE "err")]
    /\ hist' = [hist EXCEPT !.failed[t] = @ \cup {run[t].jid}]
    /\ caller' = [caller EXCEPT ![c] = IdleCaller]
    /\ UNCHANGED <<now, active, job, logs, pause, upd, test, kvLock, lease>>
    /\ UNCHANGED walletVars

\* the transactions of the executor, then the finally block
ExecBody(t, c) ==
    /\ run[t].pc = "call"
    /\ caller[c].pc = "body"
    /\ \E chainOk \in BOOLEAN :
        \E gasCovered \in GasOutcomes(run[t].cfg[1], run[t].bal) :
          LET cfg == run[t].cfg[1]
              outcome == IF ExecSucceeds(cfg, run[t].bal, gasCovered, chainOk)
                         THEN "ok" ELSE "err"
          IN  run' = [run EXCEPT ![t].pc = "return",
                                 ![t].transfer = Transfer(cfg, run[t].bal, gasCovered),
                                 ![t].res = IF UsesNonceLock(caller[c].kind)
                                            THEN withNonceLock(caller[c].lockId, outcome)
                                            ELSE outcome]
    /\ caller' = [caller EXCEPT ![c] = IF caller[c].lockId # None
                                       THEN [@ EXCEPT !.pc = "release"]
                                       ELSE IdleCaller]
    /\ UNCHANGED <<now, active, job, logs, pause, upd, test, hist, kvLock, lease>>
    /\ UNCHANGED walletVars

\* the executor returns or throws once releaseNonceLock is over
ExecReturn(t, c) ==
    /\ run[t].pc = "return"
    /\ caller[c].pc = "idle"
    /\ run' = [run EXCEPT ![t].pc = "save"]
    /\ hist' = [hist EXCEPT !.failed[t] = IF run[t].res = "ok" THEN @
                                           ELSE @ \cup {run[t].jid}]
    /\ UNCHANGED <<now, active, job, logs, pause, upd, test>>
    /\ UNCHANGED lockVars
    /\ UNCHANGED walletVars

NextLock ==
    \/ \E c \in Callers, kind \in Kinds, address \in Addresses : CallStart(c, kind, address)
    \/ \E c \in Callers : AcquireGet(c)
    \/ \E c \in Callers : AcquireSet(c)
    \/ \E c \in Callers : AcquireExpire(c)
    \/ \E c \in Callers : AcquireVerify(c)
    \/ \E c \in Callers : AcquireTimeout(c)
    \/ \E c \in Callers : Body(c)
    \/ \E c \in Callers : ReleaseGet(c)
    \/ \E c \in Callers : ReleaseDel(c)
    \/ \E key \in LockKeys : LeaseExpire(key)

----------------------------------------------------------------------------
(* The system of request handlers on one job *)

\* a job as stored after cf consecutive failed runs before the model starts
Stored(template, cf) ==
    [template EXCEPT !.consecutiveFailures = cf,
                     !.lastRunTime = IF cf = 0 THEN None ELSE Some(0 - 1)]

NoHist ==
    [reqs |-> 0, dirty |-> {}, lost |-> {},
     lastDue |-> [j \in Jobs |-> None],
     autoPauses |-> [j \in Jobs |-> 0],
     appended |-> [j \in Jobs |-> 0],
     seen |-> [t \in Ticks |-> {}],
     due |-> [t \in Ticks |-> {}],
     tried |-> [t \in Ticks |-> {}],
     failed |-> [t \in Ticks |-> {}],
     probe |-> None,
     created |-> None,
     faults |-> [t \in Ticks |-> {}],
     nfaults |-> 0,
     logged |-> [t \in Ticks |-> {}],
     deleted |-> {},
     minted |-> {},
     before |-> None]

IdleReq == [pc |-> "idle", op |-> "", id |-> "", parentId |-> None,
            cfg |-> None, queue |-> <<>>, status |-> 0]

\* no wallet is stored and no job-delete or wallet request is in flight
NoWallets ==
    /\ wallet = <<>>
    /\ walletsActive = {}
    /\ walletJobs = [w \in Wallets |-> {}]
    /\ req = [r \in Requests |-> IdleReq]

InitStore(ids, templates) ==
    /\ NoWallets
    /\ now = 0
    /\ active = ids
    /\ job \in [ids -> {Stored(tp, cf) : tp \in templates, cf \in {0, 2}}]
    /\ logs = [j \in Jobs |-> <<>>]
    /\ run = [t \in Ticks |-> IdleRun]
    /\ pause = IdlePause
    /\ upd = IdleUpd
    /\ test = IdleTest

InitCron(ids, templates) == InitStore(ids, templates) /\ hist = NoHist

InitLockIdle ==
    /\ kvLock = <<>>
    /\ lease = {}
    /\ caller = [c \in Callers |-> IdleCaller]

\* one run-loop invocation at a time
Tick(t) ==
    \/ TickStart(t)
    \/ TickFetch(t)
    \/ TickExec(t)
    \/ TickSave(t)
    \/ TickLog(t)
    \/ TickReturn(t)

Init == InitCron({"j1"}, {EthFixed, SwapUsdcEth, TokenSellMax}) /\ InitLockIdle

\* non-overlapping run-loop invocations, interleaved with the pause, update
\* and test-run requests of the dashboard
Next ==
    \/ Advance
    \/ Tick("t1")
    \/ \E jid \in Jobs, enabled \in BOOLEAN : PauseRead(jid, enabled)
    \/ PauseWrite
    \/ \E jid \in Jobs, body \in UpdateBodies : UpdateRead(jid, body)
    \/ UpdateWrite
    \/ \E jid \in Jobs : TestRead(jid)
    \/ TestExec
    \/ TestLogPush
    \/ TestLogTrim

Spec == Init /\ [][Next]_vars

----------------------------------------------------------------------------
(* Job creation, schedule updates and the run loop *)

Str_FourFields == <<"*", " ", "*", " ", "*", " ", "*">>
Str_SixFields == <<"*", " ", "*", " ", "*", " ", "*", " ", "*", " ", "*">>
\* five fields, two of them separated by two spaces
Str_WideGap == <<"*", " ", " ", "*", " ", "*", " ", "*", " ", "*">>

\* the schedules a create or an update request may carry
Schedules == {<<>>, Str_EveryMinute, Str_WideGap, Str_FourFields, Str_SixFields}

\* variant: any schedule that is given passes
ScheduleAccepted_Any(schedule) == schedule # <<>>

\* the checks of the create handler on the schedule: it is given and has
\* five fields
ScheduleAccepted(schedule) ==
    /\ schedule # <<>>
    /\ Len(filterNonEmpty(split(schedule, " "))) = 5

\* POST /api/cron/create of an eth_transfer job whose other fields are
\* valid: a 400 response, or the job stored under the fresh id jid and the
\* id added to the active set
Create(jid, schedule) ==
    /\ IF ScheduleAccepted(schedule)
       THEN /\ jid \notin DOMAIN job
            /\ job' = kvSetJob(jid, [EthFixed EXCEPT !.schedule = schedule])
            /\ active' = active \cup {jid}
            /\ hist' = [hist EXCEPT !.created = Some([schedule |-> schedule,
                                                       status |-> 201])]
       ELSE /\ hist' = [hist EXCEPT !.created = Some([schedule |-> schedule,
                                                       status |-> 400])]
            /\ UNCHANGED <<job, active>>
    /\ UNCHANGED <<now, logs, run, pause, upd, test>>
    /\ UNCHANGED lockVars
    /\ UNCHANGED walletVars

InitCreate == InitCron({}, {EthFixed}) /\ InitLockIdle

NextCreate ==
    \/ Advance
    \/ Tick("t1")
    \/ \E schedule \in Schedules : Create("j1", schedule)
    \/ \E schedule \in Schedules \ {<<>>} :
          UpdateRead("j1", [NoBody EXCEPT !.schedule = Some(schedule)])
    \/ UpdateWrite

SpecCreate == InitCreate /\ [][NextCreate]_vars

----------------------------------------------------------------------------
(* The cron matcher on one field and one clock value *)

\* the forms of a field: *, k, */n, a-b/n, a-b and a,b,n; an integer is
\* written with or without a leading zero
FieldForms ==
    {[form |-> f, a |-> a, b |-> b, n |-> n, pad |-> pad] :
        f \in {"star", "int", "step", "rangeStep", "range", "list"},
        a \in {0, 5, 10}, b \in {10, 45}, n \in {1, 5, 15}, pad \in BOOLEAN}

\* the field as it is written in the expression
Render(f) ==
    CASE f.form = "star" -> <<"*">>
      [] f.form = "int" -> (IF f.pad /\ f.a < 10 THEN <<"0">> ELSE <<>>) \o NatToString(f.a)
      [] f.form = "step" -> <<"*", "/">> \o NatToString(f.n)
      [] f.form = "rangeStep" ->
            NatToString(f.a) \o <<"-">> \o NatToString(f.b) \o <<"/">> \o NatToString(f.n)
      [] f.form = "range" -> NatToString(f.a) \o <<"-">> \o NatToString(f.b)
      [] f.form = "list" ->
            NatToString(f.a) \o <<",">> \o NatToString(f.b) \o <<",">> \o NatToString(f.n)

\* what the field means for clock value v
Denotes(f, v) ==
    CASE f.form = "star" -> TRUE
      [] f.form = "int" -> v = f.a
      [] f.form = "step" -> v % f.n = 0
      [] f.form = "rangeStep" -> f.a <= v /\ v <= f.b /\ (v - f.a) % f.n = 0
      [] f.form = "range" -> f.a <= v /\ v <= f.b
      [] f.form = "list" -> v \in {f.a, f.b, f.n}

\* the days of the week as Date.getDay gives them, 0 being Sunday
Days == 0..6

\* midnight of the day of the week d in the week of Sunday 2025-01-05
DateOnDay(d) ==
    [year |-> 2025, month |-> 0, date |-> 5 + d, hours |-> 0, minutes |-> 0, day |-> d]

\* a schedule that runs every minute of the days its day-of-week field names
OnWeekday(field) == <<"*", " ", "*", " ", "*", " ", "*", " ">> \o field

InitMatch ==
    /\ InitStore({"j1"}, {EthFixed})
    /\ InitLockIdle
    /\ \E probe \in
            {[kind |-> "field", form |-> f, value |-> v, day |-> 0, result |-> None] :
                f \in FieldForms, v \in 0..MaxMinute}
            \cup {[kind |-> "day", form |-> None, value |-> 0, day |-> d, result |-> None] :
                d \in Days} :
          hist = [NoHist EXCEPT !.probe = Some(probe)]

\* matchesCronField on the field and the clock value
MatchField ==
    /\ hist.probe # None
    /\ hist.probe[1].kind = "field"
    /\ hist.probe[1].result = None
    /\ hist' = [hist EXCEPT !.probe[1].result =
                    Some(matchesCronField(Render(hist.probe[1].form), hist.probe[1].value))]
    /\ UNCHANGED <<now, active, job, logs, run, pause, upd, test>>
    /\ UNCHANGED lockVars
    /\ UNCHANGED walletVars

\* the field checks of shouldRunJob on the day, for the day-of-week fields
\* 7 and 0
MatchDay ==
    /\ hist.probe # None
    /\ hist.probe[1].kind = "day"
    /\ hist.probe[1].result = None
    /\ hist' = [hist EXCEPT !.probe[1].result =
                    Some([seven |-> cronMatches(OnWeekday(<<"7">>), DateOnDay(hist.probe[1].day)),
                          zero |-> cronMatches(OnWeekday(<<"0">>), DateOnDay(hist.probe[1].day))])]
    /\ UNCHANGED <<now, active, job, logs, run, pause, upd, test>>
    /\ UNCHANGED lockVars
    /\ UNCHANGED walletVars

NextMatch == MatchField \/ MatchDay

SpecMatch == InitMatch /\ [][NextMatch]_vars

(***************************************************************************)
(* The run loop when a store operation throws.  Every store call of the    *)
(* loop body sits inside the per-job try: a throw on the success path of   *)
(* the executor lands in the executor's own catch, which takes the failure *)
(* path (count the failure, write the job, append an error entry); a throw *)
(* anywhere else lands in the per-job catch, which appends an error entry  *)
(* and lets the loop go on to the next job and to the 200 response.  Only  *)
(* a throw inside the per-job catch reaches the handler's catch and the    *)
(* 500 response.                                                           *)
(***************************************************************************)
MaxFaults == 1

StoreFault(h, t, jid) ==
    [h EXCEPT !.faults[t] = @ \cup {jid}, !.nfaults = @ + 1]

\* kv.get of the job configuration throws.
FetchFails(t) ==
    /\ run[t].pc = "loop"
    /\ run[t].queue # <<>>
    /\ hist.nfaults < MaxFaults
    /\ LET jid == Head(run[t].queue)
       IN  /\ run' = [run EXCEPT ![t].pc = "catch", ![t].jid = jid]
           /\ hist' = StoreFault([hist EXCEPT !.seen[t] = @ \cup {jid}], t, jid)
    /\ UNCHANGED <<now, active, job, logs, pause, upd, test>>
    /\ UNCHANGED lockVars
    /\ UNCHANGED walletVars

\* kv.set of the job's run state throws.  On the success path the in-memory
\* configuration already carries the reset counter and the run time.
SaveFails(t) ==
    /\ run[t].pc = "save"
    /\ hist.nfaults < MaxFaults
    /\ IF run[t].res = "ok"
       THEN run' = [run EXCEPT ![t].res = "err",
                               ![t].cfg = Some(AfterRun(run[t].cfg[1], "ok", now))]
       ELSE run' = [run EXCEPT ![t].pc = "catch"]
    /\ hist' = StoreFault(hist, t, run[t].jid)
    /\ UNCHANGED <<now, active, job, logs, pause, upd, test>>
    /\ UNCHANGED lockVars
    /\ UNCHANGED walletVars

\* One of the three store calls that append the log entry throws; pushed
\* says whether lpush had completed (the throw came from ltrim).
LogFails(t, pushed) ==
    /\ run[t].pc = "log"
    /\ hist.nfaults < MaxFaults
    /\ LET jid == run[t].jid
           entry == NewLogEntry(jid, RunLogEntry(run[t].cfg[1], run[t].res, run[t].amt,
                                                 run[t].failureCount))
       IN  /\ logs' = IF pushed THEN lpushLog(logs, jid, entry) ELSE logs
           /\ hist' = StoreFault([hist EXCEPT
                                     !.appended[jid] = IF pushed THEN @ + 1 ELSE @,
                                     !.logged[t] = IF pushed THEN @ \cup {jid} ELSE @],
                                  t, jid)
    /\ IF run[t].res = "ok"
       THEN run' = [run EXCEPT ![t].pc = "save", ![t].res = "err"]
       ELSE run' = [run EXCEPT ![t].pc = "catch"]
    /\ UNCHANGED <<now, active, job, pause, upd, test>>
    /\ UNCHANGED lockVars
    /\ UNCHANGED walletVars

CatchLogEntry == [status |-> "error", amount |-> None, autoPaused |-> FALSE]

\* The per-job catch: an error entry, then the next job.
OuterCatch(t) ==
    /\ run[t].pc = "catch"
    /\ logs' = ltrimLog(lpushLog(logs, run[t].jid,
                                 NewLogEntry(run[t].jid, CatchLogEntry)),
                        run[t].jid)
    /\ hist' = [hist EXCEPT !.appended[run[t].jid] = @ + 1,
                             !.logged[t] = @ \cup {run[t].jid}]
    /\ run' = [run EXCEPT ![t] = [IdleRun EXCEPT !.pc = "loop",
                                      !.queue = Tail(run[t].queue),
                                      !.results = run[t].results]]
    /\ UNCHANGED <<now, active, job, pause, upd, test>>
    /\ UNCHANGED lockVars
    /\ UNCHANGED walletVars

\* A store call of the per-job catch throws: the handler's catch answers 500.
CatchFails(t) ==
    /\ run[t].pc = "catch"
    /\ run' = [run EXCEPT ![t] = IdleRun]
    /\ hist' = [hist EXCEPT !.seen[t] = {}, !.due[t] = {}, !.tried[t] = {},
                             !.failed[t] = {}, !.faults[t] = {},
                             !.logged[t] = {}]
    /\ UNCHANGED <<now, active, job, logs, pause, upd, test>>
    /\ UNCHANGED lockVars
    /\ UNCHANGED walletVars

InitFault == InitCron(Jobs, {EthFixed, SwapUsdcEth}) /\ InitLockIdle

NextFault ==
    \/ Advance
    \/ Tick("t1")
    \/ FetchFails("t1")
    \/ SaveFails("t1")
    \/ \E pushed \in BOOLEAN : LogFails("t1", pushed)
    \/ OuterCatch("t1")
    \/ CatchFails("t1")

SpecFault == InitFault /\ [][NextFault]_vars

(***************************************************************************)
(* Two invocations of the run loop that overlap: the scheduler fires the   *)
(* next tick while the previous one is still running.  The handler keeps   *)
(* no record of a running invocation, so the two interleave freely.        *)
(***************************************************************************)
InitOverlap == InitCron({"j1"}, {EthFixed}) /\ InitLockIdle

NextOverlap ==
    \/ Advance
    \/ Tick("t1")
    \/ Tick("t2")

SpecOverlap == InitOverlap /\ [][NextOverlap]_vars

(***************************************************************************)
(* Locked calls for wallets on several chains.  The executors pass the     *)
(* account address as the wallet library spells it and the id of the chain *)
(* they were configured for (base, mainnet); hist.probe keeps the          *)
(* arguments of each caller's current call.                                *)
(***************************************************************************)
MainnetChainId == "1"

ChainIds == {Some(BaseChainId), Some(MainnetChainId), None}

Spellings == {"0xAb", "0xAB", "0xCd"}

AllLockKeys == {lockKey(a, ch) : a \in Spellings, ch \in ChainIds}

CallArgs(c) == hist.probe[1][c]

CallOn(c, address, chainId) ==
    /\ caller[c].pc = "idle"
    /\ caller' = [caller EXCEPT ![c] =
                    [IdleCaller EXCEPT !.pc = "get", !.kind = "swap_eth_usdc",
                                       !.key = lockKey(address, chainId)]]
    /\ hist' = [hist EXCEPT !.probe =
                  Some([hist.probe[1] EXCEPT ![c] =
                          Some([address |-> address, chainId |-> chainId])])]
    /\ UNCHANGED <<kvLock, lease>>
    /\ UNCHANGED <<now, active, job, logs, run, pause, upd, test>>
    /\ UNCHANGED walletVars

InitKeys ==
    /\ InitStore({"j1"}, {EthFixed})
    /\ hist = [NoHist EXCEPT !.probe = Some([c \in Callers |-> None])]
    /\ InitLockIdle

NextKeys ==
    \/ \E c \in Callers, address \in Spellings, chainId \in ChainIds :
          CallOn(c, address, chainId)
    \/ \E c \in Callers : AcquireGet(c)
    \/ \E c \in Callers : AcquireSet(c)
    \/ \E c \in Callers : AcquireExpire(c)
    \/ \E c \in Callers : AcquireVerify(c)
    \/ \E c \in Callers : AcquireTimeout(c)
    \/ \E c \in Callers : Body(c)
    \/ \E c \in Callers : ReleaseGet(c)
    \/ \E c \in Callers : ReleaseDel(c)
    \/ \E key \in AllLockKeys : LeaseExpire(key)

SpecKeys == InitKeys /\ [][NextKeys]_vars

(***************************************************************************)
(* The check-then-act race of acquireNonceLock: two acquirers of one key   *)
(* have both read the key as absent and are about to write their tokens.   *)
(* No lease expires and no further call starts, so whatever follows is the *)
(* outcome of this one race.                                               *)
(***************************************************************************)
InitRace ==
    /\ InitCron({"j1"}, {EthFixed})
    /\ kvLock = <<>>
    /\ lease = {}
    /\ \E key \in LockKeys :
          caller = [c \in Callers |->
                      [IdleCaller EXCEPT !.pc = "set", !.kind = "swap_eth_usdc",
                                         !.key = key]]

NextRace ==
    \/ \E c \in Callers : AcquireGet(c)
    \/ \E c \in Callers : AcquireSet(c)
    \/ \E c \in Callers : AcquireExpire(c)
    \/ \E c \in Callers : AcquireVerify(c)
    \/ \E c \in Callers : AcquireTimeout(c)
    \/ \E c \in Callers : Body(c)
    \/ \E c \in Callers : ReleaseGet(c)
    \/ \E c \in Callers : ReleaseDel(c)

SpecRace == InitRace /\ [][NextRace]_vars

(***************************************************************************)
(* Wallet drain, native asset.  Amounts are in units of 10^12 wei, so the  *)
(* fixed cushion of 0.00001 ETH is 10; the division is bigint division.    *)
(***************************************************************************)
minimumCushion == 10

MaxDrainBalance == 90

MaxGasCost == 60

cushion_None(gasCost) == 0

cushion(gasCost) ==
    LET dynamicCushion == gasCost \div 5
    IN  IF minimumCushion > dynamicCushion THEN minimumCushion ELSE dynamicCushion

drainValue(ethBalance, gasCost) ==
    IF ethBalance > gasCost + cushion(gasCost)
    THEN ethBalance - gasCost - cushion(gasCost)
    ELSE 0

InitDrain ==
    /\ InitStore({"j1"}, {EthFixed})
    /\ InitLockIdle
    /\ \E ethBalance \in 1..MaxDrainBalance, gasCost \in 0..MaxGasCost :
          hist = [NoHist EXCEPT !.probe =
                      Some([kind |-> "drain", ethBalance |-> ethBalance,
                            gasCost |-> gasCost, result |-> None])]

\* the native-asset part of a drain: the value, and the transaction if one
\* is submitted
DrainEth ==
    /\ hist.probe # None
    /\ hist.probe[1].kind = "drain"
    /\ hist.probe[1].result = None
    /\ LET value == drainValue(hist.probe[1].ethBalance, hist.probe[1].gasCost)
       IN  hist' = [hist EXCEPT !.probe[1].result =
                       Some([value |-> value,
                             sent |-> IF value > 0 THEN Some(value) ELSE None])]
    /\ UNCHANGED <<now, active, job, logs, run, pause, upd, test>>
    /\ UNCHANGED lockVars
    /\ UNCHANGED walletVars

NextDrain == DrainEth

SpecDrain == InitDrain /\ [][NextDrain]_vars

----------------------------------------------------------------------------
(* The job-delete request: DELETE /api/cron/delete?jobId=<id> *)

\* kv.del of a job config; deleting an absent key changes nothing
kvDelJob(jid) == [j \in (DOMAIN job) \ {jid} |-> job[j]]

\* variant: the id stays in the active set
sremActive_Keep(jid) == active

\* kv.srem('cron:jobs:active', jobId)
sremActive(jid) == active \ {jid}

\* kv.get of the job; an unknown id is answered 404
DeleteRead(r, jid) ==
    /\ req[r].pc = "idle"
    /\ hist.reqs < MaxRequests
    /\ hist' = [hist EXCEPT !.reqs = @ + 1]
    /\ req' = [req EXCEPT ![r] =
                 IF jid \in DOMAIN job
                 THEN [IdleReq EXCEPT !.pc = "untrack", !.op = "delete", !.id = jid,
                                      !.cfg = Some(job[jid])]
                 ELSE [IdleReq EXCEPT !.status = 404]]
    /\ UNCHANGED <<now, active, job, logs, run, pause, upd, test>>
    /\ UNCHANGED lockVars
    /\ UNCHANGED <<wallet, walletsActive, walletJobs>>

\* the id leaves the tracking set of the job's wallet, if the job names one
DeleteUntrack(r) ==
    /\ req[r].pc = "untrack"
    /\ LET walletId == req[r].cfg[1].walletId
       IN  walletJobs' = IF walletId # None
                         THEN [walletJobs EXCEPT ![walletId[1]] = @ \ {req[r].id}]
                         ELSE walletJobs
    /\ req' = [req EXCEPT ![r].pc = "srem"]
    /\ UNCHANGED cronVars
    /\ UNCHANGED lockVars
    /\ UNCHANGED <<wallet, walletsActive>>

\* the id leaves the active set
DeleteSrem(r) ==
    /\ req[r].pc = "srem"
    /\ active' = sremActive(req[r].id)
    /\ req' = [req EXCEPT ![r].pc = "del"]
    /\ UNCHANGED <<now, job, logs, run, pause, upd, test, hist>>
    /\ UNCHANGED lockVars
    /\ UNCHANGED <<wallet, walletsActive, walletJobs>>

\* the config is deleted and the 200 response is sent
DeleteDel(r) ==
    /\ req[r].pc = "del"
    /\ job' = kvDelJob(req[r].id)
    /\ hist' = [hist EXCEPT !.deleted = @ \cup {req[r].id}]
    /\ req' = [req EXCEPT ![r] = [IdleReq EXCEPT !.status = 200]]
    /\ UNCHANGED <<now, active, logs, run, pause, upd, test>>
    /\ UNCHANGED lockVars
    /\ UNCHANGED <<wallet, walletsActive, walletJobs>>

Delete(r) ==
    \/ \E jid \in Jobs : DeleteRead(r, jid)
    \/ DeleteUntrack(r)
    \/ DeleteSrem(r)
    \/ DeleteDel(r)

----------------------------------------------------------------------------
(* The wallet records and the requests that write them *)

MasterWallet == [parentId |-> None, type |-> "master"]
WorkerWallet(parentId) == [parentId |-> Some(parentId), type |-> "worker"]

kvSetWallet(id, w) == [k \in (DOMAIN wallet) \cup {id} |-> IF k = id THEN w ELSE wallet[k]]
kvDelWallet(id) == [k \in (DOMAIN wallet) \ {id} |-> wallet[k]]

\* the wallets of the active set whose stored record names id as parent:
\* smembers('wallets:active') and a kv.get of every other member
ChildrenOf(id) ==
    {w \in walletsActive \ {id} : w \in DOMAIN wallet /\ wallet[w].parentId = Some(id)}

\* what the store holds, for the comparison of a request's effect
StoreNow ==
    [job |-> job, active |-> active, wallet |-> wallet,
     walletsActive |-> walletsActive, walletJobs |-> walletJobs]

----------------------------------------------------------------------------
(* The job-create request, store steps: POST /api/cron/create for a wallet, *)
(* with valid fields and no funding amount.  jid and workerId are the ids  *)
(* the handler generates from 16 random bytes each.                        *)

\* variant: the id is added to the active set before the config is stored
CreateOrder_AddFirst == <<"add", "set">>

\* the config is stored, then the id is added to the active set
CreateOrder == <<"set", "add">>

\* kv.get of the wallet; an unknown wallet is answered 404
CreateJobRead(r, walletId, jid, workerId) ==
    /\ req[r].pc = "idle"
    /\ hist.reqs < MaxRequests
    /\ {jid, workerId} \cap hist.minted = {}
    /\ IF walletId \in DOMAIN wallet
       THEN /\ req' = [req EXCEPT ![r] =
                         [IdleReq EXCEPT !.pc = "worker", !.op = "create", !.id = jid,
                                         !.parentId = Some(walletId),
                                         !.cfg = Some(workerId), !.queue = CreateOrder]]
            /\ hist' = [hist EXCEPT !.reqs = @ + 1, !.minted = @ \cup {jid, workerId}]
       ELSE /\ req' = [req EXCEPT ![r] = [IdleReq EXCEPT !.status = 404]]
            /\ hist' = [hist EXCEPT !.reqs = @ + 1]
    /\ UNCHANGED <<now, active, job, logs, run, pause, upd, test>>
    /\ UNCHANGED lockVars
    /\ UNCHANGED <<wallet, walletsActive, walletJobs>>

\* the worker wallet of the job is stored with the wallet as its parent
CreateJobWorker(r) ==
    /\ req[r].pc = "worker"
    /\ wallet' = kvSetWallet(req[r].cfg[1], WorkerWallet(req[r].parentId[1]))
    /\ req' = [req EXCEPT ![r].pc = "workerAdd"]
    /\ UNCHANGED cronVars
    /\ UNCHANGED lockVars
    /\ UNCHANGED <<walletsActive, walletJobs>>

\* the worker wallet joins the active wallets
CreateJobWorkerAdd(r) ==
    /\ req[r].pc = "workerAdd"
    /\ walletsActive' = walletsActive \cup {req[r].cfg[1]}
    /\ req' = [req EXCEPT ![r].pc = "store"]
    /\ UNCHANGED cronVars
    /\ UNCHANGED lockVars
    /\ UNCHANGED <<wallet, walletJobs>>

\* the next of the two store calls that make the job: kv.set of the config
\* and kv.sadd of the id; the 201 response follows the second
CreateJobStore(r) ==
    /\ req[r].pc = "store"
    /\ IF Head(req[r].queue) = "set"
       THEN /\ job' = kvSetJob(req[r].id, [EthFixed EXCEPT !.walletId = None])
            /\ UNCHANGED active
       ELSE /\ active' = active \cup {req[r].id}
            /\ UNCHANGED job
    /\ req' = [req EXCEPT ![r] =
                 IF Len(req[r].queue) = 1 THEN [IdleReq EXCEPT !.status = 201]
                 ELSE [@ EXCEPT !.queue = Tail(@)]]
    /\ UNCHANGED <<now, logs, run, pause, upd, test, hist>>
    /\ UNCHANGED lockVars
    /\ UNCHANGED <<wallet, walletsActive, walletJobs>>

CreateJob(r, walletId, jid, workerId) ==
    \/ CreateJobRead(r, walletId, jid, workerId)
    \/ CreateJobWorker(r)
    \/ CreateJobWorkerAdd(r)
    \/ CreateJobStore(r)

----------------------------------------------------------------------------
(* The wallet-delete request: DELETE /api/wallets/delete?walletId=<id> *)

\* kv.get of the wallet; an unknown id is answered 404
WalletDeleteRead(r, walletId) ==
    /\ req[r].pc = "idle"
    /\ hist.reqs < MaxRequests
    /\ hist' = [hist EXCEPT !.reqs = @ + 1, !.before = Some(StoreNow)]
    /\ req' = [req EXCEPT ![r] =
                 IF walletId \in DOMAIN wallet
                 THEN [IdleReq EXCEPT !.pc = "jobs", !.op = "walletDelete", !.id = walletId]
                 ELSE [IdleReq EXCEPT !.status = 404]]
    /\ UNCHANGED <<now, active, job, logs, run, pause, upd, test>>
    /\ UNCHANGED lockVars
    /\ UNCHANGED <<wallet, walletsActive, walletJobs>>

\* smembers of the wallet's tracking set, in the order the store gives
WalletDeleteJobs(r) ==
    /\ req[r].pc = "jobs"
    /\ \E jobIds \in Orders(walletJobs[req[r].id]) :
          req' = [req EXCEPT ![r].queue = jobIds,
                             ![r].pc = IF jobIds = <<>> THEN "children" ELSE "jobSrem"]
    /\ UNCHANGED cronVars
    /\ UNCHANGED lockVars
    /\ UNCHANGED <<wallet, walletsActive, walletJobs>>

\* the loop over the tracked jobs: the id leaves the active set
WalletDeleteSrem(r) ==
    /\ req[r].pc = "jobSrem"
    /\ active' = sremActive(Head(req[r].queue))
    /\ req' = [req EXCEPT ![r].pc = "jobDel"]
    /\ UNCHANGED <<now, job, logs, run, pause, upd, test, hist>>
    /\ UNCHANGED lockVars
    /\ UNCHANGED <<wallet, walletsActive, walletJobs>>

\* the loop over the tracked jobs: the config is deleted
WalletDeleteJob(r) ==
    /\ req[r].pc = "jobDel"
    /\ job' = kvDelJob(Head(req[r].queue))
    /\ req' = [req EXCEPT ![r].queue = Tail(@),
                          ![r].pc = IF Tail(req[r].queue) = <<>> THEN "jobsDel" ELSE "jobSrem"]
    /\ UNCHANGED <<now, active, logs, run, pause, upd, test, hist>>
    /\ UNCHANGED lockVars
    /\ UNCHANGED <<wallet, walletsActive, walletJobs>>

\* the tracking set is deleted
WalletDeleteUntrack(r) ==
    /\ req[r].pc = "jobsDel"
    /\ walletJobs' = [walletJobs EXCEPT ![req[r].id] = {}]
    /\ req' = [req EXCEPT ![r].pc = "children"]
    /\ UNCHANGED cronVars
    /\ UNCHANGED lockVars
    /\ UNCHANGED <<wallet, walletsActive>>

\* the check for worker wallets under the wallet: the 400 response when
\* there is one
WalletDeleteChildren(r) ==
    /\ req[r].pc = "children"
    /\ req' = [req EXCEPT ![r] =
                 IF ChildrenOf(req[r].id) # {}
                 THEN [IdleReq EXCEPT !.status = 400, !.op = "walletDelete",
                                      !.id = req[r].id]
                 ELSE [@ EXCEPT !.pc = "sremWallet"]]
    /\ UNCHANGED cronVars
    /\ UNCHANGED lockVars
    /\ UNCHANGED <<wallet, walletsActive, walletJobs>>

\* the wallet leaves the active wallets
WalletDeleteSremWallet(r) ==
    /\ req[r].pc = "sremWallet"
    /\ walletsActive' = walletsActive \ {req[r].id}
    /\ req' = [req EXCEPT ![r].pc = "delWallet"]
    /\ UNCHANGED cronVars
    /\ UNCHANGED lockVars
    /\ UNCHANGED <<wallet, walletJobs>>

\* the wallet record is deleted and the 200 response is sent
WalletDeleteDel(r) ==
    /\ req[r].pc = "delWallet"
    /\ wallet' = kvDelWallet(req[r].id)
    /\ req' = [req EXCEPT ![r] = [IdleReq EXCEPT !.status = 200]]
    /\ UNCHANGED cronVars
    /\ UNCHANGED lockVars
    /\ UNCHANGED <<walletsActive, walletJobs>>

WalletDelete(r) ==
    \/ \E walletId \in Wallets : WalletDeleteRead(r, walletId)
    \/ WalletDeleteJobs(r)
    \/ WalletDeleteSrem(r)
    \/ WalletDeleteJob(r)
    \/ WalletDeleteUntrack(r)
    \/ WalletDeleteChildren(r)
    \/ WalletDeleteSremWallet(r)
    \/ WalletDeleteDel(r)

----------------------------------------------------------------------------
(* The wallet-create request: POST /api/wallets/create, with a name that   *)
(* passes the naming checks and no funding amount.  newId is the id the    *)
(* handler generates from 16 random bytes.                                 *)

\* the master wallets among the active wallets: the loop over
\* smembers('wallets:active') that looks for a record without parentId
ActiveMasters ==
    {w \in walletsActive : w \in DOMAIN wallet /\ wallet[w].parentId = None}

\* kv.get of the parent, if one is named; an unknown parent is answered 400
WalletCreateRead(r, parentId, newId) ==
    /\ req[r].pc = "idle"
    /\ hist.reqs < MaxRequests
    /\ newId \notin hist.minted
    /\ IF parentId # None /\ parentId[1] \notin DOMAIN wallet
       THEN /\ req' = [req EXCEPT ![r] = [IdleReq EXCEPT !.status = 400]]
            /\ hist' = [hist EXCEPT !.reqs = @ + 1]
       ELSE /\ req' = [req EXCEPT ![r] =
                         [IdleReq EXCEPT !.pc = "masters", !.op = "walletCreate",
                                         !.id = newId, !.parentId = parentId]]
            /\ hist' = [hist EXCEPT !.reqs = @ + 1, !.minted = @ \cup {newId}]
    /\ UNCHANGED <<now, active, job, logs, run, pause, upd, test>>
    /\ UNCHANGED lockVars
    /\ UNCHANGED <<wallet, walletsActive, walletJobs>>

\* the single-master check: a second master is answered 400
WalletCreateCheck(r) ==
    /\ req[r].pc = "masters"
    /\ req' = [req EXCEPT ![r] =
                 IF req[r].parentId = None /\ ActiveMasters # {}
                 THEN [IdleReq EXCEPT !.status = 400]
                 ELSE [@ EXCEPT !.pc = "setWallet"]]
    /\ UNCHANGED cronVars
    /\ UNCHANGED lockVars
    /\ UNCHANGED <<wallet, walletsActive, walletJobs>>

\* the wallet record is stored
WalletCreateSet(r) ==
    /\ req[r].pc = "setWallet"
    /\ wallet' = kvSetWallet(req[r].id,
                      IF req[r].parentId = None THEN MasterWallet
                      ELSE WorkerWallet(req[r].parentId[1]))
    /\ req' = [req EXCEPT ![r].pc = "addWallet"]
    /\ UNCHANGED cronVars
    /\ UNCHANGED lockVars
    /\ UNCHANGED <<walletsActive, walletJobs>>

\* the wallet joins the active wallets and the 200 response is sent
WalletCreateAdd(r) ==
    /\ req[r].pc = "addWallet"
    /\ walletsActive' = walletsActive \cup {req[r].id}
    /\ req' = [req EXCEPT ![r] = [IdleReq EXCEPT !.status = 200]]
    /\ UNCHANGED cronVars
    /\ UNCHANGED lockVars
    /\ UNCHANGED <<wallet, walletJobs>>

WalletCreate(r, newId) ==
    \/ \E parentId \in {None} \cup {Some(w) : w \in Wallets} :
          WalletCreateRead(r, parentId, newId)
    \/ WalletCreateCheck(r)
    \/ WalletCreateSet(r)
    \/ WalletCreateAdd(r)

----------------------------------------------------------------------------
(* The reparent request: POST /api/wallets/reparent {walletId, parentId}   *)

\* getWallet of the wallet (404 when absent); without a parentId the wallet
\* is to become a master; a wallet named as its own parent is answered 400;
\* getWallet of the parent (404 when absent), then the ancestor walk starts
\* at the parent
ReparentRead(r, walletId, parentId) ==
    /\ req[r].pc = "idle"
    /\ hist.reqs < MaxRequests
    /\ hist' = [hist EXCEPT !.reqs = @ + 1]
    /\ req' = [req EXCEPT ![r] =
          IF walletId \notin DOMAIN wallet THEN [IdleReq EXCEPT !.status = 404]
          ELSE IF parentId = None
          THEN [IdleReq EXCEPT !.pc = "promote", !.op = "reparent", !.id = walletId,
                               !.cfg = Some(wallet[walletId])]
          ELSE IF parentId[1] = walletId THEN [IdleReq EXCEPT !.status = 400]
          ELSE [IdleReq EXCEPT !.pc = "parent", !.op = "reparent", !.id = walletId,
                               !.parentId = parentId, !.cfg = Some(wallet[walletId])]]
    /\ UNCHANGED <<now, active, job, logs, run, pause, upd, test>>
    /\ UNCHANGED lockVars
    /\ UNCHANGED <<wallet, walletsActive, walletJobs>>

\* the wallet is stored as a master
ReparentPromote(r) ==
    /\ req[r].pc = "promote"
    /\ wallet' = kvSetWallet(req[r].id,
                     [req[r].cfg[1] EXCEPT !.parentId = None, !.type = "master"])
    /\ req' = [req EXCEPT ![r] = [IdleReq EXCEPT !.status = 200]]
    /\ UNCHANGED cronVars
    /\ UNCHANGED lockVars
    /\ UNCHANGED <<walletsActive, walletJobs>>

\* getWallet of the parent
ReparentParent(r) ==
    /\ req[r].pc = "parent"
    /\ req' = [req EXCEPT ![r] =
                 IF req[r].parentId[1] \in DOMAIN wallet
                 THEN [@ EXCEPT !.pc = "walk", !.queue = <<req[r].parentId[1]>>]
                 ELSE [IdleReq EXCEPT !.status = 404]]
    /\ UNCHANGED cronVars
    /\ UNCHANGED lockVars
    /\ UNCHANGED <<wallet, walletsActive, walletJobs>>

\* variant: the walk looks at the proposed parent only
NextAncestor_None(id) == <<>>

\* parentWallet?.parentId ?? null, as a list of at most one id
NextAncestor(id) ==
    IF id \in DOMAIN wallet /\ wallet[id].parentId # None
    THEN <<wallet[id].parentId[1]>> ELSE <<>>

\* one iteration of isDescendant: the wallet itself among the ancestors of
\* the parent is answered 400; else the walk goes one record up
ReparentWalk(r) ==
    /\ req[r].pc = "walk"
    /\ req[r].queue # <<>>
    /\ req' = [req EXCEPT ![r] =
                 IF Head(req[r].queue) = req[r].id
                 THEN [IdleReq EXCEPT !.status = 400]
                 ELSE [@ EXCEPT !.queue = NextAncestor(Head(req[r].queue))]]
    /\ UNCHANGED cronVars
    /\ UNCHANGED lockVars
    /\ UNCHANGED <<wallet, walletsActive, walletJobs>>

\* the walk found no cycle: the wallet is stored as a worker of the parent
ReparentWrite(r) ==
    /\ req[r].pc = "walk"
    /\ req[r].queue = <<>>
    /\ wallet' = kvSetWallet(req[r].id,
                     [req[r].cfg[1] EXCEPT !.parentId = req[r].parentId, !.type = "worker"])
    /\ req' = [req EXCEPT ![r] = [IdleReq EXCEPT !.status = 200]]
    /\ UNCHANGED cronVars
    /\ UNCHANGED lockVars
    /\ UNCHANGED <<walletsActive, walletJobs>>

Reparent(r) ==
    \/ \E walletId \in Wallets, parentId \in {None} \cup {Some(w) : w \in Wallets} :
          ReparentRead(r, walletId, parentId)
    \/ ReparentPromote(r)
    \/ ReparentParent(r)
    \/ ReparentWalk(r)
    \/ ReparentWrite(r)

\* a master wallet w1 with its worker w2 and the job j1, tracked for w1
InitWallets ==
    /\ now = 0
    /\ active = {"j1"}
    /\ job = [j \in {"j1"} |-> EthFixed]
    /\ logs = [j \in Jobs |-> <<>>]
    /\ run = [t \in Ticks |-> IdleRun]
    /\ pause = IdlePause
    /\ upd = IdleUpd
    /\ test = IdleTest
    /\ hist = [NoHist EXCEPT !.minted = {"j1", "w1", "w2"}]
    /\ InitLockIdle
    /\ wallet = [w \in {"w1", "w2"} |-> IF w = "w1" THEN MasterWallet ELSE WorkerWallet("w1")]
    /\ walletsActive = {"w1", "w2"}
    /\ walletJobs = [w \in Wallets |-> IF w = "w1" THEN {"j1"} ELSE {}]
    /\ req = [r \in Requests |-> IdleReq]

\* wallet-create, reparent and wallet-delete requests, two at a time
NextWallets ==
    \/ \E r \in Requests : WalletCreate(r, "w3")
    \/ \E r \in Requests : Reparent(r)
    \/ WalletDelete("r2")

SpecWallets == InitWallets /\ [][NextWallets]_vars

\* a master wallet w1 with the job j1, tracked for the wallet or not
InitJobs ==
    /\ now = 0
    /\ active = {"j1"}
    /\ job = [j \in {"j1"} |-> EthFixed]
    /\ logs = [j \in Jobs |-> <<>>]
    /\ run = [t \in Ticks |-> IdleRun]
    /\ pause = IdlePause
    /\ upd = IdleUpd
    /\ test = IdleTest
    /\ hist = [NoHist EXCEPT !.minted = {"j1", "w1"}]
    /\ InitLockIdle
    /\ wallet = [w \in {"w1"} |-> MasterWallet]
    /\ walletsActive = {"w1"}
    /\ walletJobs \in {[w \in Wallets |-> {}],
                        [w \in Wallets |-> IF w = "w1" THEN {"j1"} ELSE {}]}
    /\ req = [r \in Requests |-> IdleReq]

\* the id of a job is known outside the create request once the request
\* has added it to the active set
Published(jid) == \A r \in Requests : ~(req[r].op = "create" /\ req[r].id = jid)

\* the run loop with job-create, job-delete and wallet-delete requests
NextJobs ==
    \/ Tick("t1")
    \/ CreateJob("r1", "w1", "j2", "w2")
    \/ \E jid \in Jobs : Published(jid) /\ DeleteRead("r2", jid)
    \/ DeleteUntrack("r2")
    \/ DeleteSrem("r2")
    \/ DeleteDel("r2")
    \/ WalletDelete("r2")

SpecJobs == InitJobs /\ [][NextJobs]_vars

\* one job, one run-loop invocation at a time and pause/resume requests
\* for stored and for unknown job ids
InitPause == InitCron({"j1"}, {EthFixed, SwapUsdcEth}) /\ InitLockIdle

NextPause ==
    \/ Advance
    \/ Tick("t1")
    \/ \E jid \in Jobs, enabled \in BOOLEAN : PauseRead(jid, enabled)
    \/ \E jid \in Jobs, enabled \in BOOLEAN : PauseUnknown(jid, enabled)
    \/ PauseWrite

SpecPause == InitPause /\ [][NextPause]_vars

\* one job, one run-loop invocation at a time and job-delete requests
InitDelete == InitCron({"j1"}, {EthFixed, SwapUsdcEth}) /\ InitLockIdle

NextDelete ==
    \/ Advance
    \/ Tick("t1")
    \/ Delete("r1")

SpecDelete == InitDelete /\ [][NextDelete]_vars

----------------------------------------------------------------------------
(* The run loop alone, over two jobs of any type *)

InitLoop == InitCron(Jobs, JobTemplates) /\ InitLockIdle

NextLoop ==
    \/ Advance
    \/ Tick("t1")

SpecLoop == InitLoop /\ [][NextLoop]_vars

----------------------------------------------------------------------------
(* One job executed over and over by test runs that succeed *)

InitLog == InitCron({"j1"}, {EthFixed}) /\ InitLockIdle

NextLog ==
    \/ TestReadWithin("j1", MaxAppends)
    \/ TestExecIn({4}, {TRUE})
    \/ TestLogPush
    \/ TestLogTrim

SpecLog == InitLog /\ [][NextLog]_vars

----------------------------------------------------------------------------
(* The run loop on one job, its executor being caller c1 of the nonce lock, *)
(* and another executor started for the same wallets from elsewhere         *)

InitLoopLock == InitCron({"j1"}, {EthFixed, SwapUsdcEth, TokenBuy}) /\ InitLockIdle

NextLoopLock ==
    \/ Advance
    \/ TickStart("t1")
    \/ TickFetch("t1")
    \/ ExecCall("t1", "c1")
    \/ ExecTimeout("t1", "c1")
    \/ ExecBody("t1", "c1")
    \/ ExecReturn("t1", "c1")
    \/ TickSave("t1")
    \/ TickLog("t1")
    \/ TickReturn("t1")
    \/ \E address \in Addresses : CallStart("c2", "swap_usdc_eth", address)
    \/ \E c \in Callers : AcquireGet(c)
    \/ \E c \in Callers : AcquireSet(c)
    \/ \E c \in Callers : AcquireExpire(c)
    \/ \E c \in Callers : AcquireVerify(c)
    \/ AcquireTimeout("c2")
    \/ Body("c2")
    \/ \E c \in Callers : ReleaseGet(c)
    \/ \E c \in Callers : ReleaseDel(c)
    \/ \E key \in LockKeys : LeaseExpire(key)

SpecLoopLock == InitLoopLock /\ [][NextLoopLock]_vars

----------------------------------------------------------------------------
(* The executors on the nonce lock, with the job store at rest *)

InitLock == InitCron({"j1"}, {EthFixed}) /\ InitLockIdle

SpecLock == InitLock /\ [][NextLock]_vars

----------------------------------------------------------------------------
(* Two withNonceLock calls, each made once, that run to their end *)

\* the callers have entered acquireNonceLock
InitWait ==
    /\ InitCron({"j1"}, {EthFixed})
    /\ kvLock = <<>>
    /\ lease = {}
    /\ caller \in [Callers ->
          {[IdleCaller EXCEPT !.pc = "get", !.kind = kind, !.key = key] :
               kind \in {k \in Kinds : UsesNonceLock(k)}, key \in LockKeys}]

\* LOCK_TTL is 60 s and the store calls of an acquisition follow each other
\* within milliseconds: a lease runs out only under a holder that is still
\* in its body
LeaseExpireInBody(key) ==
    /\ \E c \in Callers :
          caller[c].pc = "body" /\ caller[c].key = key /\ kvGetLock(key) = Some(c)
    /\ LeaseExpire(key)

\* the next step of the call of caller c
CallStep(c) ==
    \/ AcquireGet(c)
    \/ AcquireSet(c)
    \/ AcquireExpire(c)
    \/ AcquireVerify(c)
    \/ AcquireTimeout(c)
    \/ Body(c)
    \/ ReleaseGet(c)
    \/ ReleaseDel(c)

NextWait ==
    \/ \E c \in Callers : CallStep(c)
    \/ \E key \in LockKeys : LeaseExpireInBody(key)

\* every await of a call returns and the call goes on: the event loop runs
\* each pending continuation
FairCalls == \A c \in Callers : WF_vars(CallStep(c))

SpecWait == InitWait /\ [][NextWait]_vars /\ FairCalls

----------------------------------------------------------------------------
(* Two withNonceLock calls on a store that supports expiry, in processes   *)
(* that may be killed once they have written the key                       *)

\* the process of caller c ends between two of its store calls, or in its
\* body, after kv.set(lockKey, lockId)
Crash(c) ==
    /\ caller[c].pc \in {"expire", "verify", "body", "release", "del"}
    /\ caller' = [caller EXCEPT ![c].pc = "crashed"]
    /\ UNCHANGED <<kvLock, lease>>
    /\ UNCHANGED cronVars
    /\ UNCHANGED walletVars

CallStepWithExpiry(c) ==
    \/ AcquireGet(c)
    \/ AcquireSet(c)
    \/ AcquireExpireOn(c, {TRUE})
    \/ AcquireVerify(c)
    \/ AcquireTimeout(c)
    \/ Body(c)
    \/ ReleaseGet(c)
    \/ ReleaseDel(c)

NextCrash ==
    \/ \E c \in Callers : CallStepWithExpiry(c)
    \/ \E c \in Callers : Crash(c)
    \/ \E key \in LockKeys : LeaseExpire(key)

\* a live call goes on, and the store drops a key whose lease has run out
FairCrash ==
    /\ \A c \in Callers : WF_vars(CallStepWithExpiry(c))
    /\ \A key \in LockKeys : WF_vars(LeaseExpire(key))

SpecCrash == InitWait /\ [][NextCrash]_vars /\ FairCrash

----------------------------------------------------------------------------
(* Properties *)

Range(q) == {q[i] : i \in DOMAIN q}

\* caller c is inside the body that withNonceLock runs for it
InLockedBody(c) == caller[c].pc = "body" /\ caller[c].lockId # None

\* C1: two withNonceLock calls on the same (chainId, address) key never
\* execute their bodies at the same time
C1_BodiesExclusive ==
    \A c \in Callers, d \in Callers :
        (c # d /\ InLockedBody(c) /\ InLockedBody(d)) => caller[c].key # caller[d].key

\* C2: every executor, whatever the job type, submits its transactions
\* while it holds a lock id returned by acquireNonceLock
C2_SubmitsUnderLock ==
    \A c \in Callers : caller[c].pc = "body" => caller[c].lockId # None

\* the step by which run-loop invocation t starts executing job j
StartsExecution(t, j) ==
    run[t].pc = "loop" /\ run'[t].pc = "exec" /\ run'[t].jid = j

\* the run-state write of run-loop invocation t
WritesRunState(t) == run[t].pc = "save" /\ run'[t].pc = "log"

\* the log append of run-loop invocation t
AppendsLog(t) == run[t].pc = "log" /\ run'[t].pc = "loop"

\* C3 as stated: with non-overlapping run-loop invocations a job that has
\* been executed in a calendar minute is not executed again in that minute
C3_OncePerMinute ==
    [][\A t \in Ticks, j \in Jobs :
          StartsExecution(t, j) => hist.lastDue[j] # Some(MinuteOf(now))]_vars

\* C3, amended: with non-overlapping run-loop invocations a job that has
\* been executed in a calendar minute is not executed again in that minute,
\* unless a request has written back a copy of the job that it had read
\* before another request's write (a lost update)
C3_OncePerMinuteUnlessLostUpdate ==
    [][\A t \in Ticks, j \in Jobs :
          StartsExecution(t, j) =>
              (hist.lastDue[j] # Some(MinuteOf(now)) \/ j \in hist.lost)]_vars

\* the run-once guard alone keeps an enabled job, whose schedule matches,
\* from running again in the minute in which it has run
C3_GuardBlocks ==
    \E t \in Ticks, j \in Jobs :
        /\ run[t].pc = "loop"
        /\ run[t].queue # <<>>
        /\ Head(run[t].queue) = j
        /\ j \notin hist.lost
        /\ hist.lastDue[j] = Some(MinuteOf(now))
        /\ job[j].enabled
        /\ cronMatches(job[j].schedule, DateOf(now))
        /\ ~IsDue(j)

\* C4: the lastRunTime that the run loop stores for an every-minute job
\* lies in the minute in which the job was found due, however long the
\* execution took
C4_LastRunInDueMinute ==
    [][\A t \in Ticks :
          (WritesRunState(t) /\ run[t].cfg[1].schedule = Str_EveryMinute) =>
              MinuteOf(job'[run[t].jid].lastRunTime[1]) = MinuteOf(run[t].dueAt)]_vars

\* C5: a failed execution stores the counter plus one, and enabled=false
\* when it was 2, with autoPaused=true in the error log entry; a successful
\* execution stores the counter 0 and leaves the job enabled
C5_FailureCounter ==
    [][\A t \in Ticks :
          LET j == run[t].jid
          IN  /\ WritesRunState(t) =>
                    IF run[t].res = "err"
                    THEN /\ job'[j].consecutiveFailures = job[j].consecutiveFailures + 1
                         /\ job[j].consecutiveFailures = 2 =>
                               (job'[j].consecutiveFailures = 3 /\ ~job'[j].enabled)
                    ELSE job'[j].consecutiveFailures = 0 /\ job'[j].enabled
              /\ AppendsLog(t) =>
                    /\ Len(logs'[j]) = Len(logs[j]) + 1
                    /\ Head(logs'[j]).status = (IF run[t].res = "err" THEN "error" ELSE "success")
                    /\ Head(logs'[j]).autoPaused =
                          (run[t].res = "err" /\ job[j].consecutiveFailures >= MAX_FAILURES)]_vars

\* a job whose third consecutive failure has paused it, with the log entry
C5_AutoPaused ==
    \E j \in Jobs :
        /\ job[j].consecutiveFailures = 3
        /\ ~job[j].enabled
        /\ logs[j] # <<>>
        /\ Head(logs[j]).status = "error"
        /\ Head(logs[j]).autoPaused

\* C6: no stored job is enabled with three or more consecutive failures
C6_NoEnabledAtThreshold ==
    \A j \in DOMAIN job : ~(job[j].enabled /\ job[j].consecutiveFailures >= MAX_FAILURES)

\* a stored job at the threshold while requests are in flight on it
C6_AtThreshold ==
    \E j \in DOMAIN job :
        /\ job[j].consecutiveFailures >= MAX_FAILURES
        /\ ~job[j].enabled
        /\ Holders(j) # {}

\* C7 as stated: between two explicit re-enables at most one execution
\* attempt auto-pauses the job
C7_OneAutoPause ==
    \A j \in Jobs : hist.autoPauses[j] <= 1

\* C7, amended: between two explicit re-enables at most one execution
\* attempt auto-pauses the job, unless a request has written back a copy of
\* the job that it had read before another request's write (a lost update)
C7_OneAutoPauseUnlessLostUpdate ==
    \A j \in Jobs : hist.autoPauses[j] <= 1 \/ j \in hist.lost

\* an auto-paused job that a later run-loop invocation has left alone
C7_AutoPausedOnce ==
    \E t \in Ticks, j \in Jobs :
        /\ hist.autoPauses[j] = 1
        /\ j \notin hist.lost
        /\ ~job[j].enabled
        /\ logs[j] # <<>>
        /\ Head(logs[j]).autoPaused
        /\ run[t].pc = "loop"
        /\ j \in hist.seen[t] \ hist.due[t]

\* the write that completes an explicit enable request
ExplicitEnable(j) ==
    pause.pc = "write" /\ pause'.pc = "idle" /\ pause.jid = j /\ pause.enabled

\* a write of job j by a request whose copy of the job is out of date
StaleWrite(j) ==
    \/ \E t \in Ticks : WritesRunState(t) /\ run[t].jid = j /\ t \in hist.dirty
    \/ upd.pc = "write" /\ upd'.pc = "idle" /\ upd.jid = j /\ "update" \in hist.dirty

\* C8 as stated: the run loop performs no chain operation for a job whose
\* stored enabled flag is false, and the flag goes from false to true only
\* by the write of an explicit enable request
C8_DisabledStaysOff ==
    [][/\ \A t \in Ticks :
             (run[t].pc = "exec" /\ run'[t].pc = "save") => job[run[t].jid].enabled
       /\ \A j \in DOMAIN job :
             (~job[j].enabled /\ job'[j].enabled) => ExplicitEnable(j)]_vars

\* C8, amended: the run loop performs no chain operation for a job whose
\* enabled flag was false when the invocation read it, and the stored flag
\* goes from false to true only by the write of an explicit enable request
\* or by a write of a copy read before another request's write
C8_DisabledStaysOffUnlessLostUpdate ==
    [][/\ \A t \in Ticks :
             (run[t].pc = "exec" /\ run'[t].pc = "save") => run[t].cfg[1].enabled
       /\ \A j \in DOMAIN job :
             (~job[j].enabled /\ job'[j].enabled) => (ExplicitEnable(j) \/ StaleWrite(j))]_vars

\* an auto-paused job that an explicit enable request has switched on again
C8_ResumedAfterAutoPause ==
    \E j \in DOMAIN job :
        /\ logs[j] # <<>>
        /\ Head(logs[j]).autoPaused
        /\ j \notin hist.lost
        /\ job[j].enabled
        /\ job[j].consecutiveFailures = 0
        /\ pause.pc = "idle"

\* C9: a run-loop invocation examines every job of the active set and
\* attempts each one it finds due, whatever the outcome of the others
C9_TickGoesOn ==
    \A t \in Ticks :
        run[t].pc = "loop" =>
            /\ hist.seen[t] \cup Range(run[t].queue) = active
            /\ hist.tried[t] = hist.due[t]

\* a job is attempted after another job of the same invocation has failed
C9_AttemptAfterFailure ==
    \E t \in Ticks :
        /\ run[t].pc = "save"
        /\ hist.failed[t] # {}
        /\ run[t].jid \notin hist.failed[t]

\* C10: the amount in the log entry of a successful execution is the
\* amount that was passed to the chain operation
C10_LoggedAmountIsSent ==
    [][\A t \in Ticks :
          (AppendsLog(t) /\ run[t].res = "ok") =>
              Head(logs'[run[t].jid]).amount = run[t].amt]_vars

\* C11: after k executions of a job, its log list and the response of the
\* logs endpoint hold the min(k, 100) most recent entries, newest first
C11_LogListKeepsNewest ==
    \A j \in DOMAIN job :
        test.pc # "trim" =>
            LET k == hist.appended[j]
                n == IF k < LOG_CAP THEN k ELSE LOG_CAP
                r == LogsResponse(j)
            IN  /\ Len(logs[j]) = n
                /\ Len(r) = n
                /\ \A i \in 1..n : logs[j][i].id = k - i + 1 /\ r[i].id = k - i + 1

\* 105 executions are over: the entries 6..105 are listed, the entries 1..5 are not
C11_FiveEvicted ==
    /\ hist.appended["j1"] = LOG_CAP + 5
    /\ test.pc = "idle"
    /\ Len(LogsResponse("j1")) = LOG_CAP
    /\ LogsResponse("j1")[LOG_CAP].id = 6


NativeMax(cfg) ==
    /\ Truthy(cfg.useMax)
    /\ \/ cfg.type = "eth_transfer"
       \/ /\ cfg.type = "token_swap"
          /\ cfg.tokenAddress # None
          /\ OrElse(cfg.swapDirection, "eth_to_token") = "eth_to_token"

\* C12: for a useMax job spending the native asset, the amount passed to the
\* send or used as the sell amount of the swap is balance - reserve when the
\* balance exceeds the reserve (so less than the balance) and 0 otherwise,
\* never the full balance nor the configured amount
C12_MaxIsBalanceLessReserve ==
    \A t \in Ticks : run[t].pc = "save" /\ NativeMax(run[t].cfg[1]) =>
        LET cfg == run[t].cfg[1]
            bal == run[t].bal
        IN  /\ run[t].amt = Some(IF bal > GasReserve THEN bal - GasReserve ELSE 0)
            /\ bal > GasReserve => run[t].amt[1] < bal
            /\ run[t].amt # ConfiguredAmount(cfg)
            /\ run[t].transfer # None => run[t].transfer = run[t].amt

C12_MaxTransferSubmitted ==
    /\ run["t1"].pc = "save"
    /\ NativeMax(run["t1"].cfg[1])
    /\ run["t1"].cfg[1].type = "eth_transfer"
    /\ run["t1"].bal = 4
    /\ run["t1"].transfer = Some(3)

\* C13: a useMax eth_transfer run with a balance at or below the reserve
\* submits no transaction
C13_NoZeroValueTransfer ==
    \A t \in Ticks :
        /\ run[t].pc = "save"
        /\ run[t].cfg[1].type = "eth_transfer"
        /\ Truthy(run[t].cfg[1].useMax)
        /\ run[t].bal <= GasReserve
        => run[t].transfer = None


\* C14: a caller that finds the key held at a poll does not write it; when
\* its wait is over acquireNonceLock returns null and withNonceLock throws
\* without calling its body; in a run-loop job this is an execution
\* failure: failure count incremented, lastRunTime set, error log entry
C14_LockTimeoutIsFailure ==
    /\ [][\A c \in Callers :
            /\ (caller[c].pc = "get" /\ kvGetLock(caller[c].key) # None
                    /\ caller'[c] # caller[c])
                => /\ caller'[c].pc = IF caller[c].polls + 1 < MaxPolls
                                      THEN "get" ELSE "timeout"
                   /\ kvLock' = kvLock
            /\ (caller[c].pc = "timeout" /\ caller'[c] # caller[c])
                => /\ caller'[c].pc = "idle"
                   /\ (c = "c1" /\ run["t1"].pc = "call")
                          => run'["t1"].pc = "save" /\ run'["t1"].res = "err"]_vars
    /\ [][\A t \in Ticks :
            /\ (run[t].lockFailed /\ WritesRunState(t))
                => /\ job'[run[t].jid].consecutiveFailures
                         = run[t].cfg[1].consecutiveFailures + 1
                   /\ job'[run[t].jid].lastRunTime = Some(now)
            /\ (run[t].lockFailed /\ AppendsLog(t))
                => /\ Len(logs'[run[t].jid]) = Len(logs[run[t].jid]) + 1
                   /\ Head(logs'[run[t].jid]).status = "error"]_vars

C14_TimeoutLogged ==
    /\ run["t1"].pc = "log"
    /\ run["t1"].lockFailed
    /\ kvGetLock(lockKey(WalletOf("j1"), Some(BaseChainId))) = Some("c2")
    /\ job["j1"].consecutiveFailures = 1


\* C15: when the first caller has released the key and the second is still
\* in its poll loop for that key, the second eventually acquires the lock
\* and runs its body
C15_WaiterAcquires ==
    \A c \in Callers, d \in Callers :
        (/\ c # d
         /\ caller[c].pc = "idle"
         /\ caller[d].pc = "get"
         /\ kvGetLock(caller[d].key) = None)
        ~> (InLockedBody(d) /\ caller[d].lockId = Some(d))

C15_AcquiredAfterWait ==
    /\ caller["c1"].pc = "idle"
    /\ InLockedBody("c2")
    /\ caller["c2"].polls >= 1


\* C16: on a store that supports expiry, the key of a holder that crashed
\* after writing its token is eventually removed
C16_CrashedHolderExpires ==
    \A c \in Callers :
        (caller[c].pc = "crashed" /\ kvGetLock(caller[c].key) = Some(c))
        ~> (kvGetLock(caller[c].key) # Some(c))


\* C17: the kv.del of releaseNonceLock never removes a key that holds the
\* token of another caller
C17_ReleaseDeletesOwnToken ==
    [][\A c \in Callers :
          (caller[c].pc = "del" /\ caller'[c].pc # "del")
          => kvGetLock(caller[c].key) \in {None, Some(c)}]_vars


\* the step by which run-loop invocation t sends its response
SendsResponse(t) == run[t].pc = "loop" /\ run[t].queue = <<>> /\ run'[t].pc = "idle"

\* C18: the response of a tick lists one entry, with job id and status
\* success or error, for each job executed in the tick and no other entry
C18_ResponseListsExecuted ==
    [][\A t \in Ticks : SendsResponse(t) =>
          LET executed == Response(t).executed
          IN  /\ Len(executed) = Cardinality(hist.tried[t])
              /\ {r.jobId : r \in Range(executed)} = hist.tried[t]
              /\ \A r \in Range(executed) :
                    r.status = IF r.jobId \in hist.failed[t] THEN "error"
                               ELSE "success"]_vars

\* C19: within a tick a due job is started only when no due job of higher
\* priority is still waiting in the tick
C19_HigherPriorityFirst ==
    [][\A t \in Ticks, j \in Jobs : StartsExecution(t, j) =>
          \A k \in Range(Tail(run[t].queue)) :
              IsDue(k) => FormPriority(k) <= FormPriority(j)]_vars

\* C20: every enabled job of a type the run loop executes can be test-run,
\* whatever its schedule and lastRunTime, and the test run executes the
\* action while the nonce lock of the job's wallet is held
C20_TestRunUnderLock ==
    /\ \A j \in DOMAIN job :
          (test.pc = "idle" /\ job[j].enabled /\ hist.reqs < MaxRequests)
          => ENABLED TestRead(j)
    /\ test.pc = "exec"
          => kvGetLock(lockKey(WalletOf(test.jid), Some(BaseChainId))) # None


Probed(kind) ==
    hist.probe # None /\ hist.probe[1].kind = kind /\ hist.probe[1].result # None

\* C21: on every clock value a field matches exactly when its form says so:
\* * always, k when v = k, */n when v mod n = 0, a-b/n when a <= v <= b and
\* (v - a) mod n = 0, a-b when a <= v <= b, a list when v is a member
C21_FieldMatchesAsWritten ==
    Probed("field") =>
        hist.probe[1].result[1] = Denotes(hist.probe[1].form, hist.probe[1].value)

\* the same for the fields whose integers are written without leading zero
MatcherAgreesUnpadded ==
    (Probed("field") /\ ~hist.probe[1].form.pad) =>
        hist.probe[1].result[1] = Denotes(hist.probe[1].form, hist.probe[1].value)

\* C22: on every day a schedule with day-of-week 7 matches exactly when the
\* same schedule with day-of-week 0 does
C22_SevenIsSunday ==
    Probed("day") => hist.probe[1].result[1].seven = hist.probe[1].result[1].zero


\* the number of fields of a schedule
FieldCount(schedule) == Len(filterNonEmpty(split(schedule, " ")))

\* the step of a create request
Creates == hist'.created # hist.created

C24_StoreFailureIsAnError ==
    [][\A t \in Ticks : SendsResponse(t) => hist.faults[t] = {}]_vars

\* C25: while an invocation holds a job that it found due and has not yet
\* stored lastRunTime, the job is still due, in the same minute, for another
\* invocation that reaches it: the loop has nothing that keeps the second
\* invocation from executing it too.
C25_DueUntilPersisted ==
    \A u \in Ticks : \A t \in Ticks \ {u} :
        ( /\ run[u].pc \in {"exec", "save"}
          /\ u \notin hist.dirty
          /\ MinuteOf(now) = MinuteOf(run[u].dueAt)
          /\ run[t].pc = "loop"
          /\ run[t].queue # <<>>
          /\ Head(run[t].queue) = run[u].jid )
        => IsDue(run[u].jid)

\* both invocations have executed the job for the same minute and neither
\* has stored lastRunTime yet
C25_ExecutedTwice ==
    /\ run["t1"].pc = "save" /\ run["t2"].pc = "save"
    /\ run["t1"].jid = "j1" /\ run["t2"].jid = "j1"
    /\ run["t1"].res = "ok" /\ run["t2"].res = "ok"
    /\ MinuteOf(run["t1"].dueAt) = MinuteOf(run["t2"].dueAt)
    /\ job["j1"].lastRunTime = None

\* the store holds, for the job that invocation t is processing, a
\* lastRunTime that is not older than the moment t found the job due
RunStateStored(t) ==
    LET last == job[run[t].jid].lastRunTime
    IN  last # None /\ last[1] >= run[t].dueAt

\* C26: the log entry of an attempt is appended before the attempt's run
\* state (lastRunTime, consecutiveFailures, enabled) is stored, on the
\* success and on the failure path.
C26_LogBeforeRunState ==
    [][\A t \in Ticks : AppendsLog(t) => ~RunStateStored(t)]_vars

\* the account that an address spelling denotes, whatever its letter case
Account(address) ==
    IF address \in {"0xAb", "0xAB", "0xab"} THEN 1 ELSE 2

InCall(c) == caller[c].pc # "idle"

SameLock(c, d) ==
    /\ CallArgs(c)[1].chainId = CallArgs(d)[1].chainId
    /\ Account(CallArgs(c)[1].address) = Account(CallArgs(d)[1].address)

Acquiring(c) == caller[c].pc \in {"get", "set", "expire", "verify"}

\* C27: two calls use the same lock key exactly when they have the same
\* chain id and addresses that are equal ignoring letter case, and a call
\* that is acquiring finds another call's token under its key, or polls
\* again because of it, only when that call has the same chain id and the
\* same address ignoring case.
C27_KeyedByChainAndAddress ==
    /\ [](\A c, d \in Callers :
            (InCall(c) /\ InCall(d)) =>
                (caller[c].key = caller[d].key <=> SameLock(c, d)))
    /\ [](\A c \in Callers : \A d \in Callers \ {c} :
            (Acquiring(c) /\ kvGetLock(caller[c].key) = Some(d)) =>
                (InCall(d) /\ SameLock(c, d)))
    /\ [][\A c \in Callers :
            (Acquiring(c) /\ caller'[c].polls > caller[c].polls
                /\ kvGetLock(caller[c].key) # None) =>
                \E d \in Callers \ {c} :
                    /\ kvGetLock(caller[c].key) = Some(d)
                    /\ SameLock(c, d)]_vars

\* a call waits for the lock that a call with another spelling of the same
\* address holds on the same chain
C27_WaitsForOtherSpelling ==
    /\ InLockedBody("c1")
    /\ Acquiring("c2") /\ caller["c2"].polls > 0
    /\ SameLock("c1", "c2")
    /\ CallArgs("c1")[1].address # CallArgs("c2")[1].address

\* C28: of two acquirers that have both read the same key as absent, at
\* most one is returned a token; the two never hold returned tokens for the
\* key together.
C28_AtMostOneToken ==
    \A c \in Callers : \A d \in Callers \ {c} :
        caller[c].key = caller[d].key =>
            ~(caller[c].lockId # None /\ caller[d].lockId # None)

\* the step by which run-loop invocation t puts an entry on job j's log list
PushesEntry(t, j) ==
    /\ run[t].pc \in {"log", "catch"}
    /\ run[t].jid = j
    /\ hist'.appended[j] > hist.appended[j]

\* the step by which run-loop invocation t leaves job j after an attempt
EndsAttempt(t, j) ==
    /\ run[t].pc \in {"log", "catch"}
    /\ run[t].jid = j
    /\ j \in hist.tried[t]
    /\ run'[t].pc = "loop"

\* every entry that stays on a log list stays as it was stored
EntriesKept ==
    \A j \in Jobs : \A i \in 1..Len(logs'[j]) :
        logs'[j][i].id <= hist.appended[j] =>
            \E k \in 1..Len(logs[j]) : logs[j][k] = logs'[j][i]

\* C29: an execution attempt of the run loop puts exactly one entry on the
\* job's log list, a success entry or an error entry, and stored entries
\* are never modified.
C29_OneEntryPerAttempt ==
    [][/\ \A t \in Ticks, j \in Jobs :
            /\ PushesEntry(t, j) => j \notin hist.logged[t]
            /\ EndsAttempt(t, j) => j \in hist'.logged[t]
       /\ EntriesKept]_vars

\* cfg with the run-state fields of the copy c
WithRunStateOf(cfg, c) ==
    [cfg EXCEPT !.lastRunTime = c.lastRunTime,
                !.consecutiveFailures = c.consecutiveFailures,
                !.enabled = c.enabled]

\* C30: the run loop's run-state write stores the copy of the job that the
\* invocation read, whatever has been written to the job since: outside the
\* run-state fields the stored job is the copy read, and a job that a pause
\* request disabled in between is stored as enabled again (unless this very
\* attempt auto-pauses it).
C30_RunLoopWriteOverwrites ==
    [][\A t \in Ticks :
          WritesRunState(t) =>
              LET j == run[t].jid
                  read == run[t].cfg[1]
              IN  /\ WithRunStateOf(job'[j], read) = read
                  /\ job'[j].enabled =
                        ~(run[t].res = "err"
                            /\ read.consecutiveFailures + 1 >= MAX_FAILURES)]_vars

\* a write made between the run loop's read and its write has been lost and
\* the job is stored as enabled
C30_InterveningWriteLost ==
    /\ run["t1"].pc = "log"
    /\ run["t1"].jid = "j1"
    /\ "j1" \in hist.lost
    /\ job["j1"].enabled
    /\ pause.pc = "idle" /\ upd.pc = "idle"
    /\ hist.reqs = 2

\* the larger of two amounts
Larger(a, b) == IF a >= b THEN a ELSE b

\* C31: a drain of the native asset sends balance - gasCost - cushion with
\* cushion = max(0.00001 ETH, gasCost/5), so the value sent plus the gas
\* cost is strictly less than the balance; a balance of at most
\* gasCost + cushion gives the value 0 and no transfer.
C31_DrainLeavesCushion ==
    Probed("drain") =>
        LET p == hist.probe[1]
            r == p.result[1]
            reserve == p.gasCost + Larger(10, p.gasCost \div 5)
        IN  IF p.ethBalance <= reserve
            THEN r.value = 0 /\ r.sent = None
            ELSE /\ r.value = p.ethBalance - reserve
                 /\ r.sent = Some(r.value)
                 /\ r.value + p.gasCost < p.ethBalance

\* a drain whose cushion is the fifth of the gas cost, with a transfer
C31_DynamicCushionSent ==
    /\ Probed("drain")
    /\ hist.probe[1].gasCost \div 5 > 10
    /\ hist.probe[1].result[1].sent # None

\* the step by which the withNonceLock call of caller c completes after its
\* body has run
CallCompletes(c) ==
    caller[c].pc \in {"release", "del"} /\ caller'[c].pc = "idle"

\* C32: withNonceLock releases the lock when its body has finished, by
\* returning or by throwing: the release follows the body in both cases,
\* the key does not hold the caller's token once the call is complete, and
\* what the body returned or threw is what the caller of withNonceLock gets.
C32_ReleasedWhateverTheBody ==
    [][/\ \A c \in Callers :
            CallCompletes(c) =>
                (caller[c].key \in DOMAIN kvLock' => kvLock'[caller[c].key] # c)
       /\ (run["t1"].pc = "call" /\ run'["t1"].pc = "return"
              /\ caller["c1"].lockId # None) =>
            /\ caller'["c1"].pc = "release"
            /\ run'["t1"].res \in {"ok", "err"}
            /\ ~run'["t1"].lockFailed
       /\ (run["t1"].pc = "return" /\ run'["t1"].pc = "save") =>
            run'["t1"].res = run["t1"].res]_vars

\* the body threw under the lock, the call is complete and the key is free
C32_ThrewAndReleased ==
    /\ run["t1"].pc = "return"
    /\ run["t1"].res = "err"
    /\ UsesNonceLock(KindOf(run["t1"].cfg[1]))
    /\ caller["c1"].pc = "idle"
    /\ kvLock = <<>>

\* C33: once a job-delete request for a job has been answered 200, no
\* config of the job is stored in any later state and no run-loop
\* invocation executes the job any more, whatever the run loop was doing
\* while the delete ran
C33_DeletedForGood ==
    /\ [](\A j \in hist.deleted : j \notin DOMAIN job)
    /\ [][\A t \in Ticks : (run[t].pc = "exec" /\ run'[t].pc = "save") =>
              run[t].jid \notin hist.deleted]_vars

RunStateFields == {"enabled", "consecutiveFailures"}

\* C34: the write of a pause/resume request stores the config the request
\* read with enabled set as asked and the failure counter zeroed on resume
\* and kept on pause; every other field (lastRunTime and schedule among
\* them) and every other job is as it was; a request for an id that is not
\* stored writes nothing
C34_PauseTouchesTwoFields ==
    [][/\ (pause.pc = "write" /\ pause'.pc = "idle") =>
            LET old == pause.cfg[1]
                new == job'[pause.jid]
            IN  /\ new.enabled = pause.enabled
                /\ new.consecutiveFailures =
                      IF pause.enabled THEN 0 ELSE old.consecutiveFailures
                /\ DOMAIN new = DOMAIN old
                /\ \A f \in (DOMAIN old) \ RunStateFields : new[f] = old[f]
                /\ \A j \in (DOMAIN job) \ {pause.jid} : job'[j] = job[j]
                /\ active' = active /\ logs' = logs
       /\ (pause.pc = "idle" /\ pause'.pc = "idle" /\ hist'.reqs # hist.reqs) =>
            /\ pause'.jid \notin DOMAIN job
            /\ job' = job /\ active' = active /\ logs' = logs]_vars

\* a job that had failed twice was resumed: the counter is zero and the
\* last run time is still the one of the failed run
C34_ResumedKeepsLastRun ==
    /\ pause.pc = "idle"
    /\ "j1" \in DOMAIN job
    /\ job["j1"].enabled
    /\ job["j1"].consecutiveFailures = 0
    /\ job["j1"].lastRunTime = Some(0 - 1)

\* C35: no step of a test run, successful or failed, changes lastRunTime,
\* consecutiveFailures or enabled of a stored job, so a test run neither
\* counts towards the auto-pause nor changes whether a job is due
C35_TestRunKeepsRunState ==
    [][test' # test =>
         /\ DOMAIN job' = DOMAIN job
         /\ \A j \in DOMAIN job :
               /\ job'[j].lastRunTime = job[j].lastRunTime
               /\ job'[j].consecutiveFailures = job[j].consecutiveFailures
               /\ job'[j].enabled = job[j].enabled
               /\ IsDue(j)' = IsDue(j)]_vars

\* a test run has failed on a job one failure short of the auto-pause: the
\* job is still enabled and still due
C35_FailedTestNotCounted ==
    /\ test.pc = "trim"
    /\ test.res = "err"
    /\ test.jid \in DOMAIN job
    /\ job[test.jid].consecutiveFailures = MAX_FAILURES - 1
    /\ job[test.jid].enabled
    /\ IsDue(test.jid)

\* C36: in every state, the intermediate states of job-create, job-delete
\* and wallet-delete requests interleaved with the run loop included, every
\* member of the active-jobs set has a stored job config
C36_ActiveJobsAreStored == active \subseteq DOMAIN job

\* a create request has stored the config of its job and not yet added the
\* id, while a delete request has removed an id and not yet its config
C36_BetweenTheTwoWrites ==
    /\ req["r1"].pc = "store" /\ req["r1"].queue = <<"add">>
    /\ req["r2"].pc \in {"del", "jobDel"}
    /\ "j1" \in DOMAIN job /\ "j1" \notin active
    /\ "j2" \in DOMAIN job /\ "j2" \notin active

\* C37: every stored job config has a schedule of exactly five
\* space-separated fields, after any sequence of create and update requests
C37_StoredSchedulesHaveFiveFields ==
    \A j \in DOMAIN job : FieldCount(job[j].schedule) = 5

\* following parentId from id reaches a wallet without parent, or a missing
\* record, in at most n steps
RECURSIVE RootWithin(_, _)
RootWithin(id, n) ==
    IF id \notin DOMAIN wallet \/ wallet[id].parentId = None THEN TRUE
    ELSE IF n = 0 THEN FALSE
    ELSE RootWithin(wallet[id].parentId[1], n - 1)

\* C38: after any sequence of wallet-create and reparent requests,
\* concurrent reparent requests included, the parent relation of the
\* stored wallets is acyclic: following parentId from any wallet ends at a
\* wallet without parent
C38_ParentRelationAcyclic ==
    \A w \in DOMAIN wallet : RootWithin(w, Cardinality(Wallets))

\* C39: in every state at most one wallet of the active-wallets set is a
\* master wallet (has no parentId), after any sequence of wallet-create,
\* reparent and wallet-delete requests
C39_AtMostOneMaster == Cardinality(ActiveMasters) <= 1

\* the last wallet-delete request was answered 400 for its worker wallets
Rejected(r) == req[r].pc = "idle" /\ req[r].op = "walletDelete" /\ req[r].status = 400

====
